---------------------------- MODULE Spec2Model ----------------------------
(***************************************************************************)
(* A model of the webmesh node control plane: network ACL evaluation, the  *)
(* WireGuard peer (topology) resolver, the membership Leave handler, the   *)
(* raft snapshotter, the raft observer loop, the network manager's peer    *)
(* reconciliation and the cluster bootstrap.  Each component has its own   *)
(* specification over the shared variable list; a specification leaves the *)
(* other components' variables at their initial value.                     *)
(***************************************************************************)
EXTENDS Integers, Sequences, FiniteSets, TLC

VARIABLES
    \* ---- networking.ACLs (pkg/meshdb/networking/eval.go)
    aclList,        \* the ACLs value Accept is called on (a Go slice)
    aclSorted,      \* whether ACLs.Sort(SortDescending) has run on aclList
    aclAction,      \* the *v1.NetworkAction being evaluated
    aclResult,      \* "none" before Accept was called, then "accept" / "deny"
    groups,         \* rbac groups in storage: group name -> sequence of subjects
    \* ---- mesh storage read by the resolver (pkg/util/meshutil/peers.go)
    meshNodes,      \* node id -> peers.MeshNode (publicKey, private addresses)
    meshEdges,      \* the stored edges, each an unordered pair {a, b} of node ids
    networkACLs,    \* the stored network ACLs (a set of ACL records)
    meshRoutes,     \* the stored routes, in storage key order
    resolved,       \* what the last WireGuardPeersFor call returned, and the ACLs it read
    previous,       \* history: what the call before the last returned
    \* ---- raft and the membership service (pkg/services/membership/leave.go)
    raftServers,    \* raft configuration: server id -> "Voter" / "Nonvoter"
    isLeader,       \* s.store.Raft().IsLeader() on this node
    insecure,       \* Server.insecure: no caller authentication
    left,           \* history: ids whose Leave returned OK and that have not joined since
    leaveResult,    \* status code of the last Leave call, "none" before the first
    leaveCall,      \* history: the Leave call, if the last request was one, and the state it met
    \* ---- the raft snapshotter and its SQL database (snapshots package)
    db,             \* the tables of s.db: table name -> set of rows
    snapshotData,   \* the bytes of the last snapshot taken, <<>> before the first
    snapshotState,  \* history: the tables as they were when that snapshot was taken
    restoreErr,     \* what the last Restore returned: "none" before the first, "nil", or the error
    \* ---- the raft observer loop (store.observe)
    failedHeartbeats,  \* the map failedHeartbeats: raft server id -> count
    consecutive,    \* history: failed heartbeats of a peer since its last resumed one
    lastObs,        \* history: the observation processed last
    \* ---- the network manager (pkg/net/manager.go)
    wgOpen,         \* m.wg != nil: Start has created the WireGuard interface
    wgPeers,        \* the peer ids configured in the interface (m.wg.Peers())
    iceConns,       \* m.iceConns: peer id -> index into conns
    conns,          \* every ICE proxy connection created so far: [peer, state]
    wgConfig,       \* the descriptor each peer of the interface was last put with
    refreshed,      \* history: what the last RefreshPeers call did and returned
    \* ---- cluster bootstrap (store.bootstrap), one store per bootstrap server
    bootServers,    \* the servers of opts.Bootstrap.Servers; one server when it is ""
    bootPc,         \* server -> "down", "waiting" (for raft to be ready), "member", "failed"
    raftHasState,   \* the servers whose raft data dir holds state (BootstrapCluster ran)
    raftLeader,     \* the server raft has elected, "" when there is none
    meshState,      \* the committed mesh-state keys of the replicated log: key -> value
    storage,        \* server -> the mesh-state keys its local storage has applied
    stateWrites,    \* history: key -> number of Storage().Put calls that succeeded
    \* ---- descriptor equality (pkg/net/mesh/equality.go)
    eqA,            \* the first argument of WireGuardPeerEqual (its lists are sorted in place)
    eqB,            \* the second argument
    eqResult,       \* "none" before the call, then "equal" / "unequal"
    \* ---- endpoint selection (manager.determinePeerEndpoint)
    epPeer,         \* the descriptor addPeer is called with (endpoint fields)
    epEnv,          \* what the call meets: own zone, names that resolve, local CIDRs, ICE servers
    epResult,       \* history: what addPeer did with the endpoint, [called, err, endpoint, put]
    \* ---- meshStore.Close
    storeOpen,      \* s.open
    closeOpts,      \* which of s.nw, s.plugins, s.raft are set, and opts.Raft.LeaveOnShutdown
    closeSteps,     \* history: the calls the last Close made, in order
    closeResult,    \* what the last Close returned
    \* ---- locking of the network manager
    wgmu,           \* the goroutine that holds m.wgmu, or ""
    pcmu,           \* the goroutine that holds m.pcmu, or ""
    gPc,            \* where each goroutine is
    gOp,            \* the manager method each goroutine is in
    connMap,        \* m.iceConns[peer]: the connection stored for the ICE peer, or ""
    \* ---- store-update hook
    committed,      \* how many changes of node, edge and route keys are committed
    caughtUp,       \* s.lastAppliedIndex.Load() == s.raft.AppliedIndex()
    waiters,        \* the changes whose queuePeersUpdate goroutine is waiting
    routeWaiters,   \* the changes whose queueRouteUpdate goroutine is waiting
    tasks,          \* the functions running in s.nwTaskGroup
    taskLimit,      \* the limit of s.nwTaskGroup, 0 for none
    reconciled,     \* history: the latest change a finished RefreshPeers has read
    lastUpdate,     \* history: the key of the last onDBUpdate call and whether it queued a refresh
    \* ---- DNS servers and closing of the network manager
    nwOpts,         \* whether m.fw and m.wg are set
    dnsservers,     \* m.dnsservers
    systemDNS,      \* the DNS servers configured on the system for the interface
    meshDNS,        \* the DNS addresses of the peers with the MESH_DNS feature in the storage
    nwSteps,        \* history: the calls the last manager.Close made, in order
    nwResult,       \* the last call on the manager and whether it returned an error
    \* ---- pattern matching of ACL entries
    globPattern,    \* the pattern of an ACL list
    globString,     \* the string of the action
    globResult,     \* what containsOrWildcardMatch returned
    \* ---- opening the mesh store (meshStore.Connect)
    connectOpts,    \* options of the last Connect
    connectSteps,   \* calls made by handleErr in the last Connect
    connectResult,  \* what the last Connect returned
    \* ---- UDP relays over a shared libp2p host (relay.go)
    streamHandlers, \* the relay whose handler the host holds for each protocol id
    udpRelays,      \* the UDP relays made on the host
    lastStream      \* the last stream a remote peer opened to the host

aclVars == <<aclList, aclSorted, aclAction, aclResult>>

meshVars == <<meshNodes, meshEdges, networkACLs, meshRoutes>>

resolverVars == <<meshVars, resolved, previous>>

\* the variables outside each component
membershipVars == <<raftServers, isLeader, insecure, left, leaveResult, leaveCall>>

snapshotVars == <<db, snapshotData, snapshotState, restoreErr>>

observerVars == <<failedHeartbeats, consecutive, lastObs>>

managerVars == <<wgOpen, wgPeers, iceConns, conns, wgConfig, refreshed>>

bootstrapVars == <<bootServers, bootPc, raftHasState, raftLeader, meshState, storage,
                   stateWrites>>

equalityVars == <<eqA, eqB, eqResult>>

endpointVars == <<epPeer, epEnv, epResult>>

closeVars == <<storeOpen, closeOpts, closeSteps, closeResult>>

lockVars == <<wgmu, pcmu, gPc, gOp, connMap>>

hookVars == <<committed, caughtUp, waiters, routeWaiters, tasks, taskLimit, reconciled,
              lastUpdate>>

netVars == <<nwOpts, dnsservers, systemDNS, meshDNS, nwSteps, nwResult>>

globVars == <<globPattern, globString, globResult>>

connectVars == <<connectOpts, connectSteps, connectResult>>

relayVars == <<streamHandlers, udpRelays, lastStream>>

outsideACL == <<resolverVars, membershipVars, snapshotVars, observerVars, managerVars, bootstrapVars,
    equalityVars,
    endpointVars,
    closeVars,
    lockVars,
    hookVars,
    netVars,
    globVars,
    connectVars,
    relayVars>>

outsideResolver == <<aclVars, membershipVars, snapshotVars, observerVars, managerVars, bootstrapVars,
    equalityVars,
    endpointVars,
    closeVars,
    lockVars,
    hookVars,
    netVars,
    globVars,
    connectVars,
    relayVars>>

outsideMembership == <<aclVars, groups, networkACLs, meshRoutes, resolved, previous, snapshotVars,
                       observerVars, managerVars, bootstrapVars,
    equalityVars,
    endpointVars,
    closeVars,
    lockVars,
    hookVars,
    netVars,
    globVars,
    connectVars,
    relayVars>>

outsideSnapshot == <<aclVars, groups, resolverVars, membershipVars, observerVars, managerVars,
                     bootstrapVars,
    equalityVars,
    endpointVars,
    closeVars,
    lockVars,
    hookVars,
    netVars,
    globVars,
    connectVars,
    relayVars>>

outsideObserver == <<aclVars, groups, networkACLs, meshRoutes, resolved, previous,
                     insecure, left, leaveResult, leaveCall, snapshotVars, managerVars,
                     bootstrapVars,
    equalityVars,
    endpointVars,
    closeVars,
    lockVars,
    hookVars,
    netVars,
    globVars,
    connectVars,
    relayVars>>

outsideManager == <<aclVars, groups, networkACLs, meshRoutes, resolved, previous,
                    membershipVars, snapshotVars, observerVars, bootstrapVars,
    equalityVars,
    endpointVars,
    closeVars,
    lockVars,
    hookVars,
    netVars,
    globVars,
    connectVars,
    relayVars>>

vars == <<aclList, aclSorted, aclAction, aclResult, groups,
          meshNodes, meshEdges, networkACLs, meshRoutes, resolved, previous,
          raftServers, isLeader, insecure, left, leaveResult, leaveCall,
          db, snapshotData, snapshotState, restoreErr,
          failedHeartbeats, consecutive, lastObs,
          wgOpen, wgPeers, iceConns, conns, wgConfig, refreshed,
          bootServers, bootPc, raftHasState, raftLeader, meshState, storage, stateWrites,
          eqA, eqB, eqResult,
          epPeer, epEnv, epResult,
          storeOpen, closeOpts, closeSteps, closeResult,
          wgmu, pcmu, gPc, gOp, connMap,
          committed, caughtUp, waiters, routeWaiters, tasks, taskLimit, reconciled,
          lastUpdate,
          nwOpts, dnsservers, systemDNS, meshDNS, nwSteps, nwResult,
          globPattern, globString, globResult,
          connectOpts, connectSteps, connectResult,
          streamHandlers, udpRelays, lastStream>>

NoLeave == [called |-> FALSE, id |-> "", ctx |-> [proxiedFor |-> "", peer |-> ""],
            raftServers |-> <<>>, meshNodes |-> <<>>, steps |-> <<>>]

IdleMembership ==
    /\ raftServers = <<>>
    /\ isLeader = FALSE
    /\ insecure = FALSE
    /\ left = {}
    /\ leaveResult = "none"
    /\ leaveCall = NoLeave

IdleSnapshot ==
    /\ db = <<>>
    /\ snapshotData = <<>>
    /\ snapshotState = <<>>
    /\ restoreErr = "none"

NoObservation == [kind |-> "none", peer |-> "", leader |-> FALSE, suffrage |-> "",
                  opsFailed |-> FALSE, droppedServer |-> FALSE, deletedNode |-> FALSE,
                  dataRemoved |-> FALSE, refreshes |-> 0, event |-> ""]

IdleObserver ==
    /\ failedHeartbeats = <<>>
    /\ consecutive = <<>>
    /\ lastObs = NoObservation

NoRefresh == [called |-> FALSE, err |-> FALSE, peers |-> {}, current |-> {}, tried |-> {},
              skipped |-> {}, putOK |-> {}, delOK |-> {}, unchanged |-> {}]

IdleManager ==
    /\ wgOpen = FALSE
    /\ wgPeers = {}
    /\ iceConns = <<>>
    /\ conns = <<>>
    /\ wgConfig = <<>>
    /\ refreshed = NoRefresh

IdleBootstrap ==
    /\ bootServers = {}
    /\ bootPc = <<>>
    /\ raftHasState = {}
    /\ raftLeader = ""
    /\ meshState = <<>>
    /\ storage = <<>>
    /\ stateWrites = <<>>

IdleEquality ==
    /\ eqA = <<>>
    /\ eqB = <<>>
    /\ eqResult = "none"

NoEndpoint == [called |-> FALSE, err |-> FALSE, endpoint |-> "", put |-> FALSE]

IdleEndpoint ==
    /\ epPeer = <<>>
    /\ epEnv = <<>>
    /\ epResult = NoEndpoint

NoComponents == [nw |-> FALSE, plugins |-> FALSE, raft |-> FALSE,
                 leaveOnShutdown |-> FALSE]

IdleClose ==
    /\ storeOpen = FALSE
    /\ closeOpts = NoComponents
    /\ closeSteps = <<>>
    /\ closeResult = "none"

IdleLock ==
    /\ wgmu = ""
    /\ pcmu = ""
    /\ gPc = <<>>
    /\ gOp = <<>>
    /\ connMap = ""

NoUpdate == [key |-> "", queued |-> FALSE]

IdleHook ==
    /\ lastUpdate = NoUpdate
    /\ committed = 0
    /\ caughtUp = TRUE
    /\ waiters = {}
    /\ routeWaiters = {}
    /\ tasks = {}
    /\ taskLimit = 0
    /\ reconciled = 0

NoCall == [op |-> "none", err |-> FALSE]

IdleNet ==
    /\ nwOpts = [fw |-> FALSE, wg |-> FALSE]
    /\ dnsservers = {}
    /\ systemDNS = {}
    /\ meshDNS = {}
    /\ nwSteps = <<>>
    /\ nwResult = NoCall

IdleGlob ==
    /\ globPattern = ""
    /\ globString = ""
    /\ globResult = "none"

NoConnect == [mode |-> "recover", announce |-> FALSE]

IdleConnect ==
    /\ connectOpts = NoConnect
    /\ connectSteps = <<>>
    /\ connectResult = "none"

NoStream == [protocol |-> "", handler |-> "", state |-> "", outcome |-> "none"]

IdleRelay ==
    /\ streamHandlers = <<>>
    /\ udpRelays = <<>>
    /\ lastStream = NoStream

(***************************************************************************)
(* Go string helpers (package strings).                                    *)
(***************************************************************************)
HasPrefix(s, p) == Len(p) <= Len(s) /\ SubSeq(s, 1, Len(p)) = p

HasSuffix(s, p) == Len(p) <= Len(s) /\ SubSeq(s, Len(s) - Len(p) + 1, Len(s)) = p

TrimPrefix(s, p) == IF HasPrefix(s, p) THEN SubSeq(s, Len(p) + 1, Len(s)) ELSE s

TrimSuffix(s, p) == IF HasSuffix(s, p) THEN SubSeq(s, 1, Len(s) - Len(p)) ELSE s

\* strings.Contains(v, "*")
ContainsStar(v) == \E i \in 1..Len(v) : SubSeq(v, i, i) = "*"

\* index of the first "*" of v (v contains one)
FirstStar(v) == CHOOSE i \in 1..Len(v) :
                    /\ SubSeq(v, i, i) = "*"
                    /\ \A j \in 1..(i - 1) : SubSeq(v, j, j) # "*"

\* strings.Split(v, "*")[0] and [1]: the text before the first star, and the
\* text between the first star and the second one (or the end).
SplitPart0(v) == SubSeq(v, 1, FirstStar(v) - 1)

SplitPart1(v) ==
    LET rest == SubSeq(v, FirstStar(v) + 1, Len(v))
    IN  IF ContainsStar(rest) THEN SubSeq(rest, 1, FirstStar(rest) - 1) ELSE rest

(***************************************************************************)
(* containsOrWildcardMatch, containsPort and replace of eval.go.           *)
(***************************************************************************)
WildcardMatch(v, s) ==
    IF v = "*" THEN TRUE
    ELSE IF ContainsStar(v)
         THEN IF HasPrefix(v, "*") THEN HasSuffix(s, TrimPrefix(v, "*"))
              ELSE IF HasSuffix(v, "*") THEN HasPrefix(s, TrimSuffix(v, "*"))
              ELSE HasPrefix(s, SplitPart0(v)) /\ HasSuffix(s, SplitPart1(v))
         ELSE v = s

containsOrWildcardMatch(ss, s) == \E i \in 1..Len(ss) : WildcardMatch(ss[i], s)

containsPort(pp, p) == \E i \in 1..Len(pp) : pp[i] = p

RECURSIVE replace(_, _, _)
replace(in, obj, with) ==
    IF in = <<>> THEN <<>>
    ELSE (IF Head(in) = obj THEN with ELSE <<Head(in)>>) \o replace(Tail(in), obj, with)

(***************************************************************************)
(* ACL.Matches (eval.go:108-220).  grp is the rbac group table read        *)
(* through acl.storage.  Storage read failures other than "group not       *)
(* found" are not modelled.                                                *)
(***************************************************************************)
\* the names of the subjects of a group that are of type ALL or NODE
RECURSIVE NodeSubjects(_)
NodeSubjects(subjects) ==
    IF subjects = <<>> THEN <<>>
    ELSE (IF Head(subjects).type \in {"all", "node"}
          THEN <<Head(subjects).name>> ELSE <<>>) \o NodeSubjects(Tail(subjects))

\* groups[groupName] after the first loop: every occurrence of the reference
\* appends the group's members again (the `groups[node]` guard never hits,
\* the map being keyed by the trimmed name).
RECURSIVE GroupMembers(_, _, _)
GroupMembers(list, grp, name) ==
    IF list = <<>> THEN <<>>
    ELSE (IF /\ HasPrefix(Head(list), "group:")
             /\ TrimPrefix(Head(list), "group:") = name
             /\ name \in DOMAIN grp
          THEN NodeSubjects(grp[name]) ELSE <<>>) \o GroupMembers(Tail(list), grp, name)

\* The second loop: every group with at least one collected member replaces
\* its reference.  Go ranges over the map in any order; the replacements of
\* distinct references commute as long as no member is itself a reference.
RECURSIVE ReplaceGroups(_, _, _, _)
ReplaceGroups(list, names, grp, orig) ==
    IF names = {} THEN list
    ELSE LET n == CHOOSE x \in names : TRUE
         IN  ReplaceGroups(replace(list, "group:" \o n, GroupMembers(orig, grp, n)),
                           names \ {n}, grp, orig)

\* acl.SourceNodes / acl.DestinationNodes as Matches leaves them
ExpandNodes(list, grp) ==
    ReplaceGroups(list, {n \in DOMAIN grp : GroupMembers(list, grp, n) # <<>>}, grp, list)

\* a variant that tests the CIDR lists even when the action carries no CIDR
MatchesRequiringCidrs(acl, action, grp) ==
    /\ action.srcNode # "" =>
          containsOrWildcardMatch(ExpandNodes(acl.sourceNodes, grp), action.srcNode)
    /\ action.dstNode # "" =>
          containsOrWildcardMatch(ExpandNodes(acl.destinationNodes, grp), action.dstNode)
    /\ containsOrWildcardMatch(acl.sourceCidrs, action.srcCidr)
    /\ containsOrWildcardMatch(acl.destinationCidrs, action.dstCidr)
    /\ action.protocol # "" => containsOrWildcardMatch(acl.protocols, action.protocol)
    /\ action.port # 0 => containsPort(acl.ports, action.port)

Matches(acl, action, grp) ==
    /\ action.srcNode # "" =>
          containsOrWildcardMatch(ExpandNodes(acl.sourceNodes, grp), action.srcNode)
    /\ action.dstNode # "" =>
          containsOrWildcardMatch(ExpandNodes(acl.destinationNodes, grp), action.dstNode)
    /\ action.srcCidr # "" => containsOrWildcardMatch(acl.sourceCidrs, action.srcCidr)
    /\ action.dstCidr # "" => containsOrWildcardMatch(acl.destinationCidrs, action.dstCidr)
    /\ action.protocol # "" => containsOrWildcardMatch(acl.protocols, action.protocol)
    /\ action.port # 0 => containsPort(acl.ports, action.port)

\* the ACL as a call of Matches leaves it: Matches assigns the expanded list
\* to acl.SourceNodes (line 140) and, when the source matched, to
\* acl.DestinationNodes (line 175); acl is a pointer receiver
MatchesLeaves(acl, action, grp) ==
    LET src == IF action.srcNode # "" THEN ExpandNodes(acl.sourceNodes, grp)
               ELSE acl.sourceNodes
        srcOK == action.srcNode # "" => containsOrWildcardMatch(src, action.srcNode)
        dst == IF srcOK /\ action.dstNode # ""
               THEN ExpandNodes(acl.destinationNodes, grp)
               ELSE acl.destinationNodes
    IN  [acl EXCEPT !.sourceNodes = src, !.destinationNodes = dst]

(***************************************************************************)
(* ACLs.Accept (eval.go:94-104): the first ACL of the list that matches    *)
(* decides; no match, or a nil list, denies.                               *)
(***************************************************************************)
RECURSIVE AcceptFrom(_, _, _, _)
AcceptFrom(a, i, action, grp) ==
    IF i > Len(a) THEN FALSE
    ELSE IF Matches(a[i], action, grp) THEN a[i].action = "accept"
    ELSE AcceptFrom(a, i + 1, action, grp)

\* a variant that lets the last matching ACL decide
RECURSIVE AcceptLastFrom(_, _, _, _)
AcceptLastFrom(a, i, action, grp) ==
    IF i < 1 THEN FALSE
    ELSE IF Matches(a[i], action, grp) THEN a[i].action = "accept"
    ELSE AcceptLastFrom(a, i - 1, action, grp)

AcceptLastMatch(a, action, grp) == AcceptLastFrom(a, Len(a), action, grp)

\* a variant that accepts whenever an ACL matches, whatever its action
AcceptAnyMatch(a, action, grp) == \E i \in 1..Len(a) : Matches(a[i], action, grp)

Accept(a, action, grp) == AcceptFrom(a, 1, action, grp)

\* the list as Accept leaves it: Matches has run on every ACL up to the first
\* one that matches (ACLs is a slice of pointers)
AcceptLeaves(a, action, grp) ==
    LET matching == {i \in 1..Len(a) : Matches(a[i], action, grp)}
        last == IF matching = {} THEN Len(a)
                ELSE CHOOSE i \in matching : \A j \in matching : i <= j
    IN  [i \in 1..Len(a) |->
            IF i <= last THEN MatchesLeaves(a[i], action, grp) ELSE a[i]]

(***************************************************************************)
(* ACLs.Less / ACLs.Sort (eval.go:75-89).  sort.Sort is not stable: the    *)
(* result is any permutation of the list that is ordered by Less.          *)
(***************************************************************************)
Less(a, i, j) == a[i].priority < a[j].priority

Permutation(a, f) == [i \in 1..Len(a) |-> a[f[i]]]

Bijections(n) == {f \in [1..n -> 1..n] : \A i, j \in 1..n : f[i] = f[j] => i = j}

\* sort.Sort(sort.Reverse(a)): no element is Less than a later one
IsSortedDescending(a) == \A i, j \in 1..Len(a) : i < j => ~Less(a, i, j)

IsSortedAscending(a) == \A i, j \in 1..Len(a) : i < j => ~Less(a, j, i)

SortAscendingResults(a) ==
    {s \in {Permutation(a, f) : f \in Bijections(Len(a))} : IsSortedAscending(s)}

SortDescendingResults(a) ==
    {s \in {Permutation(a, f) : f \in Bijections(Len(a))} : IsSortedDescending(s)}

(***************************************************************************)
(* Input universe of the ACL evaluation.                                   *)
(***************************************************************************)
MaxACLs == 3

\* math.MinInt32, the priority of the bootstrap "default-accept" ACL
MinInt32 == (-2147483647) - 1

NoCidrs == <<>>

ACLRecord(name, prio, act, src, dst, scidr, dcidr) ==
    [name |-> name, priority |-> prio, action |-> act,
     sourceNodes |-> src, destinationNodes |-> dst,
     sourceCidrs |-> scidr, destinationCidrs |-> dcidr,
     protocols |-> <<>>, ports |-> <<>>]

\* the action the callers build: source and destination node only
\* (peerdiscovery/server.go:84-88)
NodeAction(src, dst) ==
    [srcNode |-> src, dstNode |-> dst, srcCidr |-> "", dstCidr |-> "",
     protocol |-> "", port |-> 0]

ACLNames == <<"acl-1", "acl-2", "acl-3", "acl-4">>

ACLBodies ==
    {[priority |-> p, action |-> act, sourceNodes |-> src]
        : p \in {0, 100}, act \in {"accept", "deny"},
          src \in {<<"*">>, <<"P1", "group:g1">>}}

ACLListInputs ==
    UNION {{[i \in 1..n |->
               ACLRecord(ACLNames[i], b[i].priority, b[i].action, b[i].sourceNodes,
                         <<"*">>, NoCidrs, NoCidrs)]
             : b \in [1..n -> ACLBodies]} : n \in 0..MaxACLs}

GroupInputs ==
    {<<>>,
     [g \in {"g1"} |-> <<[type |-> "node", name |-> "P2"],
                          [type |-> "user", name |-> "P3"]>>]}

IdleACL ==
    /\ aclList = <<>>
    /\ aclSorted = FALSE
    /\ aclAction = NodeAction("", "")
    /\ aclResult = "none"

NoResult == [self |-> "", err |-> FALSE, peers |-> <<>>, acls |-> {}]

IdleMesh ==
    /\ meshNodes = <<>>
    /\ meshEdges = {}
    /\ networkACLs = {}
    /\ meshRoutes = <<>>
    /\ resolved = NoResult
    /\ previous = NoResult

InitACL ==
    /\ aclList \in ACLListInputs
    /\ aclSorted = FALSE
    /\ aclAction \in {NodeAction("P1", "P2"), NodeAction("P2", "P1")}
    /\ aclResult = "none"
    /\ groups \in GroupInputs
    /\ IdleMesh
    /\ IdleMembership
    /\ IdleSnapshot
    /\ IdleObserver
    /\ IdleManager
    /\ IdleBootstrap
    /\ IdleEquality
    /\ IdleEndpoint
    /\ IdleClose
    /\ IdleLock
    /\ IdleHook
    /\ IdleNet
    /\ IdleGlob
    /\ IdleConnect
    /\ IdleRelay

\* a.Sort(SortDescending)
ACLsSort ==
    /\ aclResult = "none"
    /\ ~aclSorted
    /\ aclList' \in SortDescendingResults(aclList)
    /\ aclSorted' = TRUE
    /\ UNCHANGED <<aclAction, aclResult, groups, outsideACL>>

\* a.Accept(ctx, action)
ACLsAccept ==
    /\ aclResult = "none"
    /\ aclResult' = IF Accept(aclList, aclAction, groups) THEN "accept" ELSE "deny"
    /\ aclList' = AcceptLeaves(aclList, aclAction, groups)
    /\ UNCHANGED <<aclSorted, aclAction, groups, outsideACL>>

NextACL == ACLsSort \/ ACLsAccept

SpecACL == InitACL /\ [][NextACL]_vars

(***************************************************************************)
(* C3: on a list sorted by descending priority, Accept is first-match-wins *)
(* with default deny: with no matching ACL (or an empty/nil list) the      *)
(* action is denied; otherwise the decision is that of the first matching  *)
(* ACL of the list, which has the highest priority among the matching      *)
(* ACLs, and the result is accept iff that ACL's action is accept.         *)
(***************************************************************************)
MatchingIndexes == {i \in 1..Len(aclList) : Matches(aclList[i], aclAction, groups)}

C3_FirstMatchWins ==
    (aclResult # "none" /\ IsSortedDescending(aclList)) =>
        IF MatchingIndexes = {}
        THEN aclResult = "deny"
        ELSE LET first == CHOOSE i \in MatchingIndexes :
                              \A j \in MatchingIndexes : i <= j
             IN  /\ \A j \in MatchingIndexes :
                        aclList[first].priority >= aclList[j].priority
                 /\ (aclResult = "accept") <=> (aclList[first].action = "accept")

\* a sorted list where a deny ACL outranks a matching accept ACL was evaluated
C3_Witness ==
    /\ aclResult = "deny"
    /\ aclSorted
    /\ \E i, j \in MatchingIndexes :
          /\ i < j
          /\ aclList[i].action = "deny"
          /\ aclList[j].action = "accept"
          /\ aclList[i].priority > aclList[j].priority

(***************************************************************************)
(* The topology resolver: WireGuardPeersFor, recursePeers and recurseEdges *)
(* (pkg/util/meshutil/peers.go).                                           *)
(*                                                                         *)
(* A prefix is a pair: <<"v4", id>> and <<"v6", id>> are node id's private *)
(* /32 and /128, <<"cidr", c>> is a route's destination prefix c.          *)
(*                                                                         *)
(* Go ranges over a map in an unspecified order.  `order` is a permutation *)
(* of the node ids; a range over a map visits its keys in that order.      *)
(***************************************************************************)
NodeIDs == {"P1", "P2", "P3", "P4"}

PrivateAddrV4(id) == <<"v4", id>>

PrivateAddrV6(id) == <<"v6", id>>

Contains(seq, x) == \E i \in 1..Len(seq) : seq[i] = x

SeqToSet(seq) == {seq[i] : i \in 1..Len(seq)}

\* append the elements of `more` that `seq` does not hold yet
RECURSIVE AppendNew(_, _)
AppendNew(seq, more) ==
    IF more = <<>> THEN seq
    ELSE AppendNew(IF Contains(seq, Head(more)) THEN seq ELSE Append(seq, Head(more)),
                   Tail(more))

\* the keys of a map, in the order a range visits them
RangeOrder(keys, order) == SelectSeq(order, LAMBDA k : k \in keys)

\* an adjacency map holding a stored edge at one of its ends only
AdjacencyMapOneWay == [a \in DOMAIN meshNodes |->
                          {b \in DOMAIN meshNodes :
                              {a, b} \in meshEdges /\ a # b /\ a = (CHOOSE x \in {a, b} : TRUE)}]

\* peers.Graph.AdjacencyMap: the stored edges are undirected
AdjacencyMap == [a \in DOMAIN meshNodes |->
                    {b \in DOMAIN meshNodes : {a, b} \in meshEdges /\ a # b}]

\* networking.FilterGraph: an edge (a, b) of the graph is kept iff the ACLs,
\* in descending priority, accept the action from a to b.
FilterGraph(acls, thisNodeID) ==
    [a \in DOMAIN AdjacencyMap |->
        {b \in AdjacencyMap[a] : Accept(acls, NodeAction(a, b), groups)}]

\* adjacencyMap[id]: a missing key reads as the nil map
AdjOf(adjacencyMap, id) == IF id \in DOMAIN adjacencyMap THEN adjacencyMap[id] ELSE {}

\* networking.GetRoutesByNode followed by the parse of every destination CIDR
RECURSIVE RoutePrefixesFrom(_, _)
RoutePrefixesFrom(routes, id) ==
    IF routes = <<>> THEN <<>>
    ELSE (IF Head(routes).node = id
          THEN [i \in 1..Len(Head(routes).destinationCidrs) |->
                    <<"cidr", Head(routes).destinationCidrs[i]>>]
          ELSE <<>>) \o RoutePrefixesFrom(Tail(routes), id)

RoutePrefixes(id) == RoutePrefixesFrom(meshRoutes, id)

\* the node's own addresses, as far as they are valid
NodeAddrs(id) ==
    (IF meshNodes[id].hasV4 THEN <<PrivateAddrV4(id)>> ELSE <<>>)
    \o (IF meshNodes[id].hasV6 THEN <<PrivateAddrV6(id)>> ELSE <<>>)

\* a route prefix is appended although it is one of this peer's own routes
RECURSIVE AppendRoutesWithOwn(_, _, _)
AppendRoutesWithOwn(allowedIPs, prefixes, thisRoutes) ==
    IF prefixes = <<>> THEN allowedIPs
    ELSE AppendRoutesWithOwn(IF ~Contains(allowedIPs, Head(prefixes))
                             THEN Append(allowedIPs, Head(prefixes)) ELSE allowedIPs,
                             Tail(prefixes), thisRoutes)

\* peers.go:148-160 and 223-235: a route prefix is appended unless the list
\* holds it already or it is one of this peer's own routes
RECURSIVE AppendRoutes(_, _, _)
AppendRoutes(allowedIPs, prefixes, thisRoutes) ==
    IF prefixes = <<>> THEN allowedIPs
    ELSE AppendRoutes(IF ~Contains(allowedIPs, Head(prefixes))
                         /\ ~Contains(thisRoutes, Head(prefixes))
                      THEN Append(allowedIPs, Head(prefixes)) ELSE allowedIPs,
                      Tail(prefixes), thisRoutes)

(***************************************************************************)
(* recurseEdges (peers.go:178-252).  The visited map is shared by all the  *)
(* calls of one traversal, so it is threaded through the result.           *)
(* graph.Vertex cannot fail here: the adjacency map holds graph vertices   *)
(* only.                                                                   *)
(***************************************************************************)
RECURSIVE recurseEdges(_, _, _, _, _, _)
RECURSIVE rangeTargets(_, _, _, _, _, _)
\* the loop `for target := range targets` over the targets not yet ranged over
rangeTargets(adjacencyMap, thisPeer, thisRoutes, targets, acc, order) ==
    IF targets = <<>> THEN acc
    ELSE LET target == Head(targets)
             rest == Tail(targets)
         IN  IF \/ target = thisPeer
                \/ target \in AdjOf(adjacencyMap, thisPeer)
                \/ target \in acc.visited
             THEN rangeTargets(adjacencyMap, thisPeer, thisRoutes, rest, acc, order)
             ELSE LET seen == acc.visited \cup {target}
                  IN  IF meshNodes[target].publicKey = ""
                      THEN rangeTargets(adjacencyMap, thisPeer, thisRoutes, rest,
                                        [acc EXCEPT !.visited = seen], order)
                      ELSE LET own == AppendRoutes(acc.allowedIPs \o NodeAddrs(target),
                                                   RoutePrefixes(target), thisRoutes)
                               sub == recurseEdges(adjacencyMap, thisPeer, thisRoutes,
                                                   target, seen, order)
                           IN  rangeTargets(adjacencyMap, thisPeer, thisRoutes, rest,
                                   [allowedIPs |-> AppendNew(own, sub.allowedIPs),
                                    allowedRoutes |-> AppendNew(acc.allowedRoutes,
                                                                sub.allowedRoutes),
                                    visited |-> sub.visited],
                                   order)

\* a traversal that does not skip the other direct adjacents of this peer
RECURSIVE recurseEdgesThroughAdjacents(_, _, _, _, _, _)
recurseEdgesThroughAdjacents(adjacencyMap, thisPeer, thisRoutes, node, visited, order) ==
    rangeTargets([adjacencyMap EXCEPT ![thisPeer] = {}], thisPeer, thisRoutes,
                 RangeOrder(AdjOf(adjacencyMap, node), order),
                 [allowedIPs |-> <<>>, allowedRoutes |-> <<>>,
                  visited |-> visited \cup {node}],
                 order)

recurseEdges(adjacencyMap, thisPeer, thisRoutes, node, visited, order) ==
    rangeTargets(adjacencyMap, thisPeer, thisRoutes,
                 RangeOrder(AdjOf(adjacencyMap, node), order),
                 [allowedIPs |-> <<>>, allowedRoutes |-> <<>>,
                  visited |-> visited \cup {node}],
                 order)

(***************************************************************************)
(* recursePeers (peers.go:128-176)                                         *)
(***************************************************************************)
recursePeers(adjacencyMap, thisPeer, thisRoutes, node, order) ==
    LET own == AppendRoutes(NodeAddrs(node), RoutePrefixes(node), thisRoutes)
        edge == recurseEdges(adjacencyMap, thisPeer, thisRoutes, node, {}, order)
    IN  [allowedIPs |-> AppendNew(own, edge.allowedIPs),
         allowedRoutes |-> AppendNew(<<>>, edge.allowedRoutes)]

(***************************************************************************)
(* WireGuardPeersFor (peers.go:36-126): one descriptor per direct adjacent *)
(* of peerID in the filtered graph that has a public key.                  *)
(***************************************************************************)
RECURSIVE rangeAdjacents(_, _, _, _, _, _)
rangeAdjacents(adjacencyMap, peerID, ourRoutes, adjacents, out, order) ==
    IF adjacents = <<>> THEN out
    ELSE LET adjacent == Head(adjacents)
         IN  IF meshNodes[adjacent].publicKey = ""
             THEN rangeAdjacents(adjacencyMap, peerID, ourRoutes, Tail(adjacents), out, order)
             ELSE LET r == recursePeers(adjacencyMap, peerID, ourRoutes, adjacent, order)
                  IN  rangeAdjacents(adjacencyMap, peerID, ourRoutes, Tail(adjacents),
                          Append(out, [id |-> adjacent,
                                       publicKey |-> meshNodes[adjacent].publicKey,
                                       allowedIps |-> r.allowedIPs,
                                       allowedRoutes |-> r.allowedRoutes]),
                          order)

WireGuardPeersFor(acls, peerID, order) ==
    LET adjacencyMap == FilterGraph(acls, peerID)
    IN  rangeAdjacents(adjacencyMap, peerID, RoutePrefixes(peerID),
                       RangeOrder(AdjOf(adjacencyMap, peerID), order), <<>>, order)

(***************************************************************************)
(* The resolver's specification: the initial state draws a mesh state, a   *)
(* step resolves the topology of one node under one iteration order (one   *)
(* call per behaviour: the resolver keeps no state between calls).         *)
(***************************************************************************)
MeshNode(key, v4, v6) == [publicKey |-> key, hasV4 |-> v4, hasV6 |-> v6]

KeyOf(id) == "key-" \o id

Orders == {o \in [1..Cardinality(NodeIDs) -> NodeIDs] :
              \A i, j \in 1..Cardinality(NodeIDs) : o[i] = o[j] => i = j}

\* the default-accept ACL of a bootstrapped mesh (store bootstrap, part_012:353-361)
DefaultAcceptACL ==
    ACLRecord("default-accept", MinInt32, "accept", <<"*">>, <<"*">>, <<"*">>, <<"*">>)

\* the deny rule of the spec's scenario 5: no CIDR lists
DenyP1ToP2 ==
    ACLRecord("deny-p1-p2", 100, "deny", <<"P1">>, <<"P2">>, NoCidrs, NoCidrs)

NodeInputs ==
    {[id \in NodeIDs |-> MeshNode(KeyOf(id), TRUE, TRUE)],
     [id \in {"P1", "P2", "P3"} |-> MeshNode(KeyOf(id), TRUE, TRUE)],
     [id \in NodeIDs |-> MeshNode(IF id = "P4" THEN "" ELSE KeyOf(id), TRUE, TRUE)],
     [id \in NodeIDs |-> MeshNode(KeyOf(id), TRUE, id # "P3")]}

ACLInputs == {{DefaultAcceptACL}, {DefaultAcceptACL, DenyP1ToP2}, {}}

Route(name, node, cidrs) == [name |-> name, node |-> node, destinationCidrs |-> cidrs]

RouteInputs ==
    {<<>>,
     <<Route("r2", "P2", <<"10.0.0.0/24">>)>>,
     <<Route("r1", "P1", <<"10.0.0.0/24">>), Route("r2", "P2", <<"10.0.0.0/24">>)>>}

InitResolver ==
    /\ meshNodes \in NodeInputs
    /\ meshEdges \in SUBSET {e \in SUBSET DOMAIN meshNodes : Cardinality(e) = 2}
    /\ networkACLs \in ACLInputs
    /\ meshRoutes \in RouteInputs
    /\ resolved = NoResult
    /\ previous = NoResult
    /\ groups = <<>>
    /\ IdleACL
    /\ IdleMembership
    /\ IdleSnapshot
    /\ IdleObserver
    /\ IdleManager
    /\ IdleBootstrap
    /\ IdleEquality
    /\ IdleEndpoint
    /\ IdleClose
    /\ IdleLock
    /\ IdleHook
    /\ IdleNet
    /\ IdleGlob
    /\ IdleConnect
    /\ IdleRelay

\* networking.ListNetworkACLs: the stored ACLs as a list sorted by descending priority
ACLsOf(set) ==
    {a \in [1..Cardinality(set) -> set] : SeqToSet(a) = set /\ IsSortedDescending(a)}

\* mesh.WireGuardPeersFor(ctx, storage, self)
Resolve(self) ==
    /\ resolved = NoResult
    /\ \E acls \in ACLsOf(networkACLs), order \in Orders :
          resolved' = [self |-> self, err |-> FALSE,
                       peers |-> WireGuardPeersFor(acls, self, order),
                       acls |-> networkACLs]
    /\ UNCHANGED <<meshVars, previous, groups, outsideResolver>>

NextResolver == \E self \in NodeIDs : Resolve(self)

SpecResolver == InitResolver /\ [][NextResolver]_vars

\* the filtered graph G' of the mesh state under a set of ACLs
GraphUnder(aclSet) == FilterGraph(CHOOSE a \in ACLsOf(aclSet) : TRUE, "")

\* the filtered graph G' of the current mesh state
FilteredGraph == GraphUnder(networkACLs)

\* the ids of the descriptors returned by the last call
ResolvedIDs == {resolved.peers[i].id : i \in 1..Len(resolved.peers)}

\* the nodes reachable from the nodes of R in G' without entering `avoid`
RECURSIVE ReachableFrom(_, _)
ReachableFrom(R, avoid) ==
    LET next == R \cup {t \in UNION {FilteredGraph[x] : x \in R} : t \notin avoid}
    IN  IF next = R THEN R ELSE ReachableFrom(next, avoid)

\* d and the nodes behind d: reachable from d by a path that visits neither
\* self nor another direct neighbour of self
BehindNeighbour(self, d) == ReachableFrom({d}, {self} \cup FilteredGraph[self])

AllKeyed == \A id \in DOMAIN meshNodes : meshNodes[id].publicKey # ""

(***************************************************************************)
(* C1: with every node holding a public key and no routes defined, for     *)
(* every node self and every direct neighbour d of self in the filtered    *)
(* graph G', topology(self) holds one descriptor for d whose allowed-IPs   *)
(* are, as a set, exactly the private addresses of d and of every node     *)
(* reachable from d in G' by a path that visits neither self nor another   *)
(* direct neighbour of self.                                               *)
(***************************************************************************)
C1_AllowedIPsAreSubtree ==
    (resolved.self \in DOMAIN meshNodes /\ AllKeyed /\ meshRoutes = <<>>) =>
        \A d \in FilteredGraph[resolved.self] :
            /\ Cardinality({i \in 1..Len(resolved.peers) : resolved.peers[i].id = d}) = 1
            /\ \A i \in 1..Len(resolved.peers) :
                  resolved.peers[i].id = d =>
                      SeqToSet(resolved.peers[i].allowedIps)
                          = UNION {SeqToSet(NodeAddrs(t))
                                      : t \in BehindNeighbour(resolved.self, d)}

\* a resolved node with two direct neighbours that share an edge, one of them
\* routing for a node behind it
C1_Witness ==
    /\ resolved.self \in DOMAIN meshNodes
    /\ AllKeyed
    /\ meshRoutes = <<>>
    /\ \E d, d2 \in FilteredGraph[resolved.self] :
          /\ d # d2
          /\ d2 \in FilteredGraph[d]
          /\ \E t \in BehindNeighbour(resolved.self, d) :
                /\ t # d
                /\ \E i \in 1..Len(resolved.peers) :
                      /\ resolved.peers[i].id = d
                      /\ Contains(resolved.peers[i].allowedIps, PrivateAddrV4(t))

(***************************************************************************)
(* C2: three fully connected nodes P1, P2, P3, the default accept-all ACL  *)
(* and one ACL {priority 100, deny, source nodes {P1}, destination nodes   *)
(* {P2}, no CIDR lists}: topology(P1) holds no descriptor for P2, while    *)
(* topology(P3) still holds descriptors for both P1 and P2.                *)
(***************************************************************************)
Scenario5 ==
    /\ DOMAIN meshNodes = {"P1", "P2", "P3"}
    /\ meshEdges = {{"P1", "P2"}, {"P1", "P3"}, {"P2", "P3"}}
    /\ networkACLs = {DefaultAcceptACL, DenyP1ToP2}

C2_DenyACLRemovesPeer ==
    Scenario5 =>
        /\ resolved.self = "P1" => "P2" \notin ResolvedIDs
        /\ resolved.self = "P3" => {"P1", "P2"} \subseteq ResolvedIDs

C2_Witness ==
    /\ Scenario5
    /\ resolved.self = "P1"
    /\ ResolvedIDs = {"P3"}

(***************************************************************************)
(* The membership service: Server.Leave (leave.go:31-88) against the raft  *)
(* configuration and the peers database.  Join and peers.Delete follow the *)
(* membership section of the specification.                                *)
(***************************************************************************)
MemberIDs == {"P1", "P2", "P3"}

\* f without the key k
Without(f, k) == [x \in DOMAIN f \ {k} |-> f[x]]

\* f with the key k set to v
With(f, k, v) == [x \in DOMAIN f \cup {k} |-> IF x = k THEN v ELSE f[x]]

\* the caller identities a request context can carry ("" stands for absent)
Contexts == [proxiedFor : {"", "P1", "P2"}, peer : {"", "P1", "P2"}]

\* leave.go:41-55: the caller is the node it asks to remove
Authenticated(ctx, id) ==
    IF ctx.proxiedFor # "" THEN ctx.proxiedFor = id
    ELSE ctx.peer # "" /\ ctx.peer = id

\* peers.Delete: the node record goes, and its edges with it
PeersDelete(id) ==
    /\ meshNodes' = Without(meshNodes, id)
    /\ meshEdges' = {e \in meshEdges : id \notin e}

\* a Leave that answers OK without deleting the node from the peers database
LeaveWithoutDelete(id, ctx, removeOK, deleteOK) ==
    /\ id # "" /\ isLeader /\ (insecure \/ Authenticated(ctx, id))
    /\ raftServers' = Without(raftServers, id)
    /\ left' = left \cup {id}
    /\ leaveResult' = "OK"
    /\ leaveCall' = [called |-> TRUE, id |-> id, ctx |-> ctx,
                     raftServers |-> raftServers, meshNodes |-> meshNodes,
                     steps |-> <<>>]
    /\ UNCHANGED <<meshNodes, meshEdges, isLeader, insecure, outsideMembership>>

\* Leave without the identity check of lines 41-55
LeaveUnchecked(id, ctx, removeOK, deleteOK) ==
    /\ id # "" /\ isLeader
    /\ (id \in DOMAIN raftServers => removeOK) /\ deleteOK
    /\ raftServers' = Without(raftServers, id)
    /\ PeersDelete(id)
    /\ left' = left \cup {id}
    /\ leaveResult' = "OK"
    /\ leaveCall' = [called |-> TRUE, id |-> id, ctx |-> ctx,
                     raftServers |-> raftServers, meshNodes |-> meshNodes,
                     steps |-> <<>>]
    /\ UNCHANGED <<isLeader, insecure, outsideMembership>>

\* the calls Leave makes on raft and on the peers database once the request
\* has passed its checks (lines 57-87).  The barrier is in a deferred function
\* registered before RemoveServer: it runs when Leave returns.
LeaveSteps(id, removeOK, deleteOK) ==
    LET raftMember == id \in DOMAIN raftServers
        deferred == IF raftMember THEN <<"Barrier">> ELSE <<>>
    IN  IF raftMember /\ ~removeOK
        THEN <<"RemoveServer">> \o deferred
        ELSE (IF raftMember THEN <<"RemoveServer">> ELSE <<>>)
             \o <<"peers.Delete">> \o deferred

\* Server.Leave; removeOK and deleteOK are the outcomes of raft's RemoveServer
\* and of the storage delete
Leave(id, ctx, removeOK, deleteOK) ==
    /\ UNCHANGED <<isLeader, insecure, outsideMembership>>
    /\ leaveCall' = [called |-> TRUE, id |-> id, ctx |-> ctx,
                     raftServers |-> raftServers, meshNodes |-> meshNodes,
                     steps |-> IF id = "" \/ ~isLeader
                                  \/ (~insecure /\ ~Authenticated(ctx, id))
                               THEN <<>>
                               ELSE LeaveSteps(id, removeOK, deleteOK)]
    /\ IF id = ""
       THEN /\ leaveResult' = "InvalidArgument"
            /\ UNCHANGED <<meshNodes, meshEdges, raftServers, left>>
       ELSE IF ~isLeader
       THEN /\ leaveResult' = "FailedPrecondition"
            /\ UNCHANGED <<meshNodes, meshEdges, raftServers, left>>
       ELSE IF ~insecure /\ ~Authenticated(ctx, id)
       THEN /\ leaveResult' = "PermissionDenied"
            /\ UNCHANGED <<meshNodes, meshEdges, raftServers, left>>
       ELSE IF id \in DOMAIN raftServers /\ ~removeOK
       THEN /\ leaveResult' = "Internal"
            /\ UNCHANGED <<meshNodes, meshEdges, raftServers, left>>
       ELSE /\ raftServers' = Without(raftServers, id)
            /\ IF ~deleteOK
               THEN /\ leaveResult' = "Internal"
                    /\ UNCHANGED <<meshNodes, meshEdges, left>>
               ELSE /\ PeersDelete(id)
                    /\ left' = left \cup {id}
                    /\ leaveResult' = "OK"

\* the join transaction on the leader: upsert the node, insert an edge to
\* every requested direct peer that exists, add the raft server
Join(id, directPeers, suffrage) ==
    /\ isLeader
    /\ meshNodes' = With(meshNodes, id, MeshNode(KeyOf(id), TRUE, TRUE))
    /\ meshEdges' = meshEdges \cup {{id, p} : p \in (directPeers \cap DOMAIN meshNodes) \ {id}}
    /\ raftServers' = With(raftServers, id, suffrage)
    /\ left' = left \ {id}
    /\ leaveCall' = NoLeave
    /\ UNCHANGED <<leaveResult, isLeader, insecure, outsideMembership>>

InitMembership ==
    /\ meshNodes = [id \in {"P1"} |-> MeshNode(KeyOf(id), TRUE, TRUE)]
    /\ meshEdges = {}
    /\ networkACLs = {DefaultAcceptACL}
    /\ meshRoutes = <<>>
    /\ resolved = NoResult
    /\ previous = NoResult
    /\ groups = <<>>
    /\ raftServers = [id \in {"P1"} |-> "Voter"]
    /\ isLeader \in BOOLEAN
    /\ insecure \in BOOLEAN
    /\ left = {}
    /\ leaveResult = "none"
    /\ leaveCall = NoLeave
    /\ IdleACL
    /\ IdleSnapshot
    /\ IdleObserver
    /\ IdleManager
    /\ IdleBootstrap
    /\ IdleEquality
    /\ IdleEndpoint
    /\ IdleClose
    /\ IdleLock
    /\ IdleHook
    /\ IdleNet
    /\ IdleGlob
    /\ IdleConnect
    /\ IdleRelay

NextMembership ==
    \/ \E id \in MemberIDs \cup {""}, ctx \in Contexts, removeOK, deleteOK \in BOOLEAN :
          Leave(id, ctx, removeOK, deleteOK)
    \/ \E id \in MemberIDs, directPeers \in SUBSET MemberIDs,
          suffrage \in {"Voter", "Nonvoter"} :
          Join(id, directPeers, suffrage)

SpecMembership == InitMembership /\ [][NextMembership]_vars

\* the descriptor ids of topology(self) on the current store, one iteration order
TopologyIDs(self, order) ==
    LET peers == WireGuardPeersFor(CHOOSE a \in ACLsOf(networkACLs) : TRUE, self, order)
    IN  {peers[i].id : i \in 1..Len(peers)}

(***************************************************************************)
(* C4: from the moment a Leave of node N has returned OK until N joins     *)
(* again, topology(self), computed for any node self, holds no descriptor  *)
(* with id N.                                                              *)
(***************************************************************************)
C4_LeftNodeNotInTopology ==
    \A N \in left : \A self \in NodeIDs, order \in Orders :
        N \notin TopologyIDs(self, order)

\* a node that was a direct peer of others has left, and the remaining nodes
\* still resolve each other
C4_Witness ==
    /\ leaveResult = "OK"
    /\ "P2" \in left
    /\ {"P1", "P3"} \subseteq DOMAIN meshNodes
    /\ \E order \in Orders : TopologyIDs("P1", order) = {"P3"}

(***************************************************************************)
(* The raft snapshotter (snapshots package): Snapshot dumps five tables    *)
(* into a gzip-compressed JSON document, Restore replaces the tables by    *)
(* the rows of such a document inside one SQL transaction.  A table is the *)
(* set of its rows; the dump and restore loops visit every row once.       *)
(***************************************************************************)
Tables == {"state", "nodes", "leases", "raftACLs", "nodeEdges"}

\* json.NewEncoder(gzw).Encode(model): every field of snapshotModel has a json
\* tag, so the document holds the five row lists
Encode(model) ==
    [gzip |-> [state |-> model.state, nodes |-> model.nodes, leases |-> model.leases,
               raft_acls |-> model.raftACLs, node_edges |-> model.nodeEdges]]

\* json.NewDecoder(gzr).Decode(&model)
Decode(data) ==
    [state |-> data.gzip.state, nodes |-> data.gzip.nodes, leases |-> data.gzip.leases,
     raftACLs |-> data.gzip.raft_acls, nodeEdges |-> data.gzip.node_edges]

\* Snapshot: the five Dump queries and the encoding
SnapshotOf(database) == Encode([t \in Tables |-> database[t]])

\* s.db.Begin()
TxBegin(database) == [done |-> FALSE, tables |-> database]

\* tx.Rollback(): the transaction is finished and its writes are discarded
TxRollback(tx, database) == [done |-> TRUE, tables |-> database]

\* a Drop query on the transaction: ErrTxDone once the transaction is finished
TxDrop(tx, table) ==
    IF tx.done THEN [tx |-> tx, err |-> TRUE]
    ELSE [tx |-> [tx EXCEPT !.tables[table] = {}], err |-> FALSE]

\* a loop of Restore queries, one per row: no query and no error without rows
TxRestoreRows(tx, table, rows) ==
    IF rows = {} THEN [tx |-> tx, err |-> FALSE]
    ELSE IF tx.done THEN [tx |-> tx, err |-> TRUE]
    ELSE [tx |-> [tx EXCEPT !.tables[table] = @ \cup rows], err |-> FALSE]

\* RestoreNodeEdgeParams carries the two node ids only (the TODO of line 212):
\* the weight of a restored row is what the schema gives a row without one
EdgeRowsWithoutWeight(rows, schemaWeight) ==
    {[src |-> e.src, dst |-> e.dst, weight |-> schemaWeight] : e \in rows}

\* a Restore whose queries run outside a transaction: the drops are in the
\* store when a later query fails
RestoreRunWithoutTx(database, data, schemaWeight) ==
    [db |-> [t \in Tables |-> {}], err |-> "restore mesh state"]

\* Restore (lines 107-224).  The function literal of lines 124-129 is called
\* on the spot, it is not deferred: the transaction is rolled back before the
\* first query runs on it.
RestoreRun(database, data, schemaWeight) ==
    LET model == Decode(data)
        tx == TxRollback(TxBegin(database), database)
        d1 == TxDrop(tx, "state")
        d2 == TxDrop(d1.tx, "nodes")
        d3 == TxDrop(d2.tx, "leases")
        d4 == TxDrop(d3.tx, "raftACLs")
        d5 == TxDrop(d4.tx, "nodeEdges")
        r1 == TxRestoreRows(d5.tx, "state", model.state)
        r2 == TxRestoreRows(r1.tx, "nodes", model.nodes)
        r3 == TxRestoreRows(r2.tx, "leases", model.leases)
        r4 == TxRestoreRows(r3.tx, "raftACLs", model.raftACLs)
        r5 == TxRestoreRows(r4.tx, "nodeEdges",
                            EdgeRowsWithoutWeight(model.nodeEdges, schemaWeight))
        Fail(msg) == [db |-> database, err |-> msg]
    IN  IF d1.err THEN Fail("drop mesh state")
        ELSE IF d2.err THEN Fail("drop nodes")
        ELSE IF d3.err THEN Fail("drop leases")
        ELSE IF d4.err THEN Fail("drop raft acls")
        ELSE IF d5.err THEN Fail("drop node edges")
        ELSE IF r1.err THEN Fail("restore mesh state")
        ELSE IF r2.err THEN Fail("restore node")
        ELSE IF r3.err THEN Fail("restore lease")
        ELSE IF r4.err THEN Fail("restore raft acl")
        ELSE IF r5.err THEN Fail("restore node edge")
        ELSE IF r5.tx.done THEN Fail("commit transaction")
        ELSE [db |-> r5.tx.tables, err |-> "nil"]

EdgeKeys == {<<"P1", "P2">>, <<"P2", "P1">>}

EdgeWeights == {1, 5}

EdgeRow(k, w) == [src |-> k[1], dst |-> k[2], weight |-> w]

\* the valid stored states the snapshotter starts from
DBInputs ==
    [state : {{}, {[key |-> "IPv4Prefix", value |-> "172.16.0.0/12"]}},
     nodes : {{}, {[id |-> "P1", publicKey |-> "key-P1"],
                   [id |-> "P2", publicKey |-> ""]}},
     leases : {{}, {[nodeID |-> "P1", ipv4 |-> "172.16.0.1/32"]}},
     raftACLs : {{}, {[name |-> "voters", nodes |-> "P1", action |-> "accept"]}},
     nodeEdges : {{}, {EdgeRow(<<"P1", "P2">>, 1)}, {EdgeRow(<<"P1", "P2">>, 5)}}]

InitSnapshot ==
    /\ db \in DBInputs
    /\ snapshotData = <<>>
    /\ snapshotState = <<>>
    /\ restoreErr = "none"
    /\ groups = <<>>
    /\ IdleACL
    /\ IdleMesh
    /\ IdleMembership
    /\ IdleObserver
    /\ IdleManager
    /\ IdleBootstrap
    /\ IdleEquality
    /\ IdleEndpoint
    /\ IdleClose
    /\ IdleLock
    /\ IdleHook
    /\ IdleNet
    /\ IdleGlob
    /\ IdleConnect
    /\ IdleRelay

\* snapshotter.Snapshot
Snapshot ==
    /\ snapshotData' = SnapshotOf(db)
    /\ snapshotState' = db
    /\ restoreErr' = "none"
    /\ UNCHANGED <<db, outsideSnapshot>>

\* snapshotter.Restore of the last snapshot taken
Restore ==
    /\ snapshotData # <<>>
    /\ \E schemaWeight \in {0, 1} :
          LET r == RestoreRun(db, snapshotData, schemaWeight)
          IN  /\ db' = r.db
              /\ restoreErr' = r.err
    /\ UNCHANGED <<snapshotData, snapshotState, outsideSnapshot>>

\* raftdb InsertNodeEdge / UpdateNodeEdge: a write between snapshot and restore
PutNodeEdge(k, w) ==
    /\ db' = [db EXCEPT !.nodeEdges =
                 {e \in @ : <<e.src, e.dst>> # k} \cup {EdgeRow(k, w)}]
    /\ restoreErr' = "none"
    /\ UNCHANGED <<snapshotData, snapshotState, outsideSnapshot>>

\* raftdb DeleteNodeEdge
DeleteNodeEdge(k) ==
    /\ \E e \in db.nodeEdges : <<e.src, e.dst>> = k
    /\ db' = [db EXCEPT !.nodeEdges = {e \in @ : <<e.src, e.dst>> # k}]
    /\ restoreErr' = "none"
    /\ UNCHANGED <<snapshotData, snapshotState, outsideSnapshot>>

NextSnapshot ==
    \/ Snapshot
    \/ Restore
    \/ \E k \in EdgeKeys, w \in EdgeWeights : PutNodeEdge(k, w)
    \/ \E k \in EdgeKeys : DeleteNodeEdge(k)

SpecSnapshot == InitSnapshot /\ [][NextSnapshot]_vars

(***************************************************************************)
(* C5: snapshot round trip: once a snapshot of a valid stored state has    *)
(* been restored into the store, the restore has succeeded and the store   *)
(* equals the state the snapshot was taken of, edge weights included.      *)
(***************************************************************************)
C5_SnapshotRoundTrip ==
    restoreErr # "none" => (restoreErr = "nil" /\ db = snapshotState)

(***************************************************************************)
(* The raft observer loop (store.observe, part_012:622-732): the handling  *)
(* of heartbeat observations.  P1 is this node, P2 a non-voter and P3 a    *)
(* voter of the raft configuration.                                        *)
(***************************************************************************)
HeartbeatThreshold == 30

\* how many failed heartbeats in a row the model lets the non-voter have, and
\* how many failed heartbeats in all the voter
MaxNonvoterFailures == 33

MaxVoterFailures == 2

ObservedIDs == {"P2", "P3"}

\* failedHeartbeats[id]: a missing key reads as zero
Counter(id) == IF id \in DOMAIN failedHeartbeats THEN failedHeartbeats[id] ELSE 0

\* the heartbeat failures the model still produces for a peer
CanFail(peer) ==
    IF peer = "P2" THEN consecutive[peer] < MaxNonvoterFailures
    ELSE Counter(peer) < MaxVoterFailures

\* case raft.ResumedHeartbeatObservation: the observation is logged
ResumedHeartbeat(peer) ==
    /\ peer \in DOMAIN raftServers
    /\ consecutive' = [consecutive EXCEPT ![peer] = 0]
    /\ lastObs' = [NoObservation EXCEPT !.kind = "resumed", !.peer = peer,
                                        !.leader = isLeader,
                                        !.suffrage = raftServers[peer]]
    /\ UNCHANGED <<failedHeartbeats, raftServers, isLeader, meshNodes, meshEdges,
                   outsideObserver>>

\* a handler that removes the peer whatever its suffrage and on any node
FailedHeartbeatAnyPeer(peer, removeOK, deleteOK) ==
    /\ peer \in DOMAIN raftServers
    /\ CanFail(peer)
    /\ consecutive' = [consecutive EXCEPT ![peer] = @ + 1]
    /\ IF Counter(peer) > HeartbeatThreshold
       THEN /\ raftServers' = Without(raftServers, peer)
            /\ PeersDelete(peer)
            /\ failedHeartbeats' = Without(failedHeartbeats, peer)
            /\ lastObs' = [NoObservation EXCEPT
                              !.kind = "failed", !.peer = peer, !.leader = isLeader,
                              !.suffrage = raftServers[peer],
                              !.droppedServer = TRUE, !.deletedNode = TRUE]
       ELSE /\ failedHeartbeats' = With(failedHeartbeats, peer, Counter(peer) + 1)
            /\ lastObs' = [NoObservation EXCEPT
                              !.kind = "failed", !.peer = peer, !.leader = isLeader,
                              !.suffrage = raftServers[peer]]
            /\ UNCHANGED <<raftServers, meshNodes, meshEdges>>
    /\ UNCHANGED <<isLeader, outsideObserver>>

\* case raft.FailedHeartbeatObservation; removeOK and deleteOK are the outcomes
\* of RemoveServer and of peers.Delete, whose errors are logged
FailedHeartbeat(peer, removeOK, deleteOK) ==
    /\ peer \in DOMAIN raftServers
    /\ CanFail(peer)
    /\ consecutive' = [consecutive EXCEPT ![peer] = @ + 1]
    /\ LET remove == isLeader /\ raftServers[peer] = "Nonvoter"
       IN  IF Counter(peer) > HeartbeatThreshold
           THEN /\ IF remove /\ removeOK
                   THEN raftServers' = Without(raftServers, peer)
                   ELSE UNCHANGED raftServers
                /\ IF remove /\ deleteOK
                   THEN PeersDelete(peer)
                   ELSE UNCHANGED <<meshNodes, meshEdges>>
                /\ failedHeartbeats' = Without(failedHeartbeats, peer)
                /\ lastObs' = [NoObservation EXCEPT
                                  !.kind = "failed", !.peer = peer, !.leader = isLeader,
                                  !.suffrage = raftServers[peer],
                                  !.opsFailed = remove /\ ~(removeOK /\ deleteOK),
                                  !.droppedServer = peer \notin DOMAIN raftServers',
                                  !.deletedNode = peer \in DOMAIN meshNodes
                                                    /\ peer \notin DOMAIN meshNodes']
           ELSE /\ failedHeartbeats' = With(failedHeartbeats, peer, Counter(peer) + 1)
                /\ lastObs' = [NoObservation EXCEPT
                                  !.kind = "failed", !.peer = peer, !.leader = isLeader,
                                  !.suffrage = raftServers[peer]]
                /\ UNCHANGED <<raftServers, meshNodes, meshEdges>>
    /\ UNCHANGED <<isLeader, outsideObserver>>

\* case raft.RaftState: this node gains or loses leadership; the handler logs
RaftStateChange ==
    /\ isLeader' = ~isLeader
    /\ UNCHANGED <<failedHeartbeats, consecutive, lastObs, raftServers,
                   meshNodes, meshEdges, outsideObserver>>

\* case raft.PeerObservation (lines 641-676), with s.testStore unset: the
\* tunnel peers are refreshed, the peer's node record is read and, when it
\* exists, an event is emitted.  raft reports a peer as removed once it is
\* out of the configuration.  Errors of RefreshPeers and Emit are logged.
PeerObservation(peer, removed) ==
    /\ removed <=> peer \notin DOMAIN raftServers
    /\ lastObs' = [NoObservation EXCEPT
                      !.kind = "peer", !.peer = peer, !.leader = isLeader,
                      !.suffrage = IF removed THEN "" ELSE raftServers[peer],
                      !.dataRemoved = removed,
                      !.refreshes = 1,
                      !.event = IF peer \notin DOMAIN meshNodes THEN ""
                                ELSE IF removed THEN "node-leave" ELSE "node-join"]
    /\ UNCHANGED <<failedHeartbeats, consecutive, raftServers, isLeader,
                   meshNodes, meshEdges, outsideObserver>>

InitObserver ==
    /\ raftServers \in {[id \in MemberIDs |-> IF id = "P2" THEN suffrage ELSE "Voter"] :
                           suffrage \in {"Nonvoter", "Voter"}}
    /\ isLeader \in BOOLEAN
    /\ meshNodes = [id \in MemberIDs |-> MeshNode(KeyOf(id), TRUE, TRUE)]
    /\ meshEdges = {{"P1", "P2"}, {"P1", "P3"}}
    /\ networkACLs = {DefaultAcceptACL}
    /\ meshRoutes = <<>>
    /\ resolved = NoResult
    /\ previous = NoResult
    /\ groups = <<>>
    /\ insecure = FALSE
    /\ left = {}
    /\ leaveResult = "none"
    /\ leaveCall = NoLeave
    /\ failedHeartbeats = <<>>
    /\ consecutive = [id \in ObservedIDs |-> 0]
    /\ lastObs = NoObservation
    /\ IdleACL
    /\ IdleSnapshot
    /\ IdleManager
    /\ IdleBootstrap
    /\ IdleEquality
    /\ IdleEndpoint
    /\ IdleClose
    /\ IdleLock
    /\ IdleHook
    /\ IdleNet
    /\ IdleGlob
    /\ IdleConnect
    /\ IdleRelay

NextObserver ==
    \/ \E peer \in ObservedIDs : ResumedHeartbeat(peer)
    \/ \E peer \in ObservedIDs, removeOK, deleteOK \in BOOLEAN :
          FailedHeartbeat(peer, removeOK, deleteOK)
    \/ RaftStateChange
    \/ \E peer \in ObservedIDs, removed \in BOOLEAN : PeerObservation(peer, removed)

SpecObserver == InitObserver /\ [][NextObserver]_vars

(***************************************************************************)
(* C6: on the leader, once the 30th failed heartbeat in a row of a peer    *)
(* with suffrage Nonvoter has been processed (and the removal calls did    *)
(* not fail), the peer is out of the raft configuration and its node       *)
(* record is deleted.                                                      *)
(***************************************************************************)
C6_RemovedAtThirtiethFailure ==
    (/\ lastObs.kind = "failed"
     /\ lastObs.leader
     /\ lastObs.suffrage = "Nonvoter"
     /\ ~lastObs.opsFailed
     /\ consecutive[lastObs.peer] = HeartbeatThreshold)
    => (/\ lastObs.peer \notin DOMAIN raftServers
        /\ lastObs.peer \notin DOMAIN meshNodes)

(***************************************************************************)
(* C7: the failure counter of a peer is zero once a ResumedHeartbeat       *)
(* observation for that peer has been processed, so the counter is the     *)
(* number of failed heartbeats in a row.                                   *)
(***************************************************************************)
C7_ResumedHeartbeatResetsCounter ==
    /\ lastObs.kind = "resumed" => Counter(lastObs.peer) = 0
    /\ \A peer \in ObservedIDs : Counter(peer) <= consecutive[peer]

(***************************************************************************)
(* The network manager (pkg/net/manager.go): RefreshPeers reconciles the   *)
(* WireGuard interface with the resolver's output for this node (P1),      *)
(* negotiating an ICE proxy connection for a peer that asks for one.  The  *)
(* manager state the functions below work on is the record                 *)
(*   [wg: driver peer ids, ice: m.iceConns, conns: all connections made,   *)
(*    overflow: a connection beyond MaxConns was asked for].               *)
(* A connection is "open", then "closed" (its goroutine of lines 654-666   *)
(* is past <-pc.Closed()), then "deleted" (the goroutine has deleted the   *)
(* map entry and is about to call RefreshPeers), then "done".              *)
(* RefreshPeers holds wgmu from start to end, so calls do not overlap.     *)
(***************************************************************************)
MaxConns == 3

ThisNode == "P1"

PeerIDs == {"P2", "P3"}

\* the peers whose descriptor says peer.GetIce()
ICEPeers == {"P2"}

\* what can happen to one peer during one call: nothing, a parse error of its
\* key or addresses, a tunnel driver error (PutPeer / DeletePeer), an endpoint
\* resolution or ICE negotiation error, an error listing the ICE servers
Outcomes == {"ok", "parse", "driver", "endpoint", "list"}

OutcomesOf(id) == IF id \in ICEPeers THEN Outcomes ELSE Outcomes \ {"list"}

\* one outcome per peer
OutcomeInputs ==
    {out \in [PeerIDs -> Outcomes] : \A id \in PeerIDs : out[id] \in OutcomesOf(id)}

\* the iteration orders with the peers P2 and P3 in either order
ManagerOrders == {o \in Orders : o[1] = "P1" /\ o[4] = "P4"}

\* negotiateICEConn (lines 630-673)
negotiateICEConn(m, id, outcome) ==
    IF id \in DOMAIN m.ice THEN [m |-> m, err |-> FALSE]
    ELSE IF outcome = "endpoint" THEN [m |-> m, err |-> TRUE]
    ELSE IF Len(m.conns) >= MaxConns
    THEN [m |-> [m EXCEPT !.overflow = TRUE], err |-> FALSE]
    ELSE [m |-> [m EXCEPT !.conns = Append(@, [peer |-> id, state |-> "open"]),
                          !.ice = With(@, id, Len(m.conns) + 1)],
          err |-> FALSE]

\* determinePeerEndpoint (lines 558-628)
determinePeerEndpoint(m, id, haveServers, outcome) ==
    IF id \in ICEPeers
    THEN IF ~haveServers THEN [m |-> m, err |-> TRUE]
         ELSE negotiateICEConn(m, id, outcome)
    ELSE [m |-> m, err |-> outcome = "endpoint"]

\* addPeer (lines 460-556): put tells whether PutPeer was called and succeeded
addPeer(m, id, haveServers, outcome) ==
    IF outcome = "parse" THEN [m |-> m, err |-> TRUE, put |-> FALSE]
    ELSE LET e == determinePeerEndpoint(m, id, haveServers, outcome)
         IN  IF e.err /\ id \notin ICEPeers
             THEN [m |-> e.m, err |-> TRUE, put |-> FALSE]
             ELSE IF outcome = "driver"
             THEN [m |-> e.m, err |-> TRUE, put |-> FALSE]
             ELSE [m |-> [e.m EXCEPT !.wg = @ \cup {id},
                                     !.cfg = With(@, id, m.want[id])],
                   err |-> FALSE, put |-> TRUE]

\* the body of the loop of lines 410-438 for one peer of the resolver's output
refreshPeer(acc, id, out) ==
    LET seen == [acc EXCEPT !.seen = @ \cup {id}]
    IN  IF id \in ICEPeers /\ ~acc.haveServers /\ out[id] = "list"
        THEN [seen EXCEPT !.errs = @ + 1, !.skipped = @ \cup {id}]
        ELSE LET servers == acc.haveServers \/ id \in ICEPeers
                 r == addPeer(acc.m, id, servers, out[id])
             IN  [seen EXCEPT !.m = r.m,
                              !.haveServers = servers,
                              !.tried = @ \cup {id},
                              !.putOK = IF r.put THEN @ \cup {id} ELSE @,
                              !.errs = IF r.err THEN @ + 1 ELSE @]

RECURSIVE rangePeers(_, _, _)
\* a loop that stops at the first peer that fails
rangePeersFailFast(acc, peers, out) ==
    IF peers = <<>> \/ acc.errs > 0 THEN acc
    ELSE rangePeers(refreshPeer(acc, Head(peers), out), Tail(peers), out)

\* the loop of lines 410-438
rangePeers(acc, peers, out) ==
    IF peers = <<>> THEN acc
    ELSE rangePeers(refreshPeer(acc, Head(peers), out), Tail(peers), out)

\* a removal loop that leaves the interface as it is
removePeersNever(acc, currentPeers, out) == acc

\* the loop of lines 440-453 over the peers of the interface the resolver did
\* not return: close and forget the ICE connection, delete the peer
removePeers(acc, currentPeers, out) ==
    LET stale == currentPeers \ acc.seen
        closing == {acc.m.ice[id] : id \in stale \cap DOMAIN acc.m.ice}
        gone == {id \in stale : out[id] # "driver"}
    IN  [acc EXCEPT
            !.m.conns = [c \in DOMAIN @ |->
                            IF c \in closing /\ @[c].state = "open"
                            THEN [@[c] EXCEPT !.state = "closed"] ELSE @[c]],
            !.m.ice = [id \in DOMAIN @ \ stale |-> @[id]],
            !.m.wg = @ \ gone,
            !.m.cfg = [id \in DOMAIN @ \ gone |-> @[id]],
            !.tried = @ \cup stale,
            !.delOK = gone,
            !.errs = @ + Cardinality(stale \ gone)]

\* the ids of the resolver's output, in its order
PeerIDSeq(peers) == [i \in 1..Len(peers) |-> peers[i].id]

\* the number of times x occurs in seq
CountOf(seq, x) == Cardinality({i \in 1..Len(seq) : seq[i] = x})

\* slices.Equal of the two lists once both are sorted (equality.go:69-74, 84-86)
SortedEqual(a, b) ==
    /\ Len(a) = Len(b)
    /\ \A i \in 1..Len(a) : CountOf(a, a[i]) = CountOf(b, a[i])

\* a field of a protobuf message: the zero value when it is not set
Field(msg, name, zero) == IF name \in DOMAIN msg THEN msg[name] ELSE zero

\* a nil *v1.WireGuardPeer
NilPeer == [nil |-> TRUE]

IsNil(peer) == "nil" \in DOMAIN peer

\* FeaturePortEqual (equality.go:104-116); the list elements are never nil
FeaturePortEqual(a, b) == a.feature = b.feature /\ a.port = b.port

\* FeaturePortsEqual (equality.go:91-101): element by element, in list order
FeaturePortsEqual(a, b) ==
    /\ Len(a) = Len(b)
    /\ \A i \in 1..Len(a) : FeaturePortEqual(a[i], b[i])

\* WireGuardPeerEqual (equality.go:59-88)
WireGuardPeerEqual(a, b) ==
    IF IsNil(a) \/ IsNil(b) THEN IsNil(a) /\ IsNil(b)
    ELSE /\ a.id = b.id
         /\ a.publicKey = b.publicKey
         /\ Field(a, "primaryEndpoint", "") = Field(b, "primaryEndpoint", "")
         /\ Field(a, "zoneAwarenessId", "") = Field(b, "zoneAwarenessId", "")
         /\ Field(a, "addressIpv4", "") = Field(b, "addressIpv4", "")
         /\ Field(a, "addressIpv6", "") = Field(b, "addressIpv6", "")
         /\ Field(a, "proto", "") = Field(b, "proto", "")
         /\ FeaturePortsEqual(Field(a, "features", <<>>), Field(b, "features", <<>>))
         /\ SortedEqual(Field(a, "wireguardEndpoints", <<>>),
                        Field(b, "wireguardEndpoints", <<>>))
         /\ SortedEqual(a.allowedIps, b.allowedIps)
         /\ SortedEqual(a.allowedRoutes, b.allowedRoutes)

\* the descriptors of the resolver's output, by peer id
DescriptorsOf(peers) ==
    [id \in {peers[i].id : i \in 1..Len(peers)} |->
        peers[CHOOSE i \in 1..Len(peers) : peers[i].id = id]]

\* RefreshPeers (lines 393-458) on the manager state m
RefreshRun(m, open, peers, out) ==
    IF ~open
    THEN [m |-> m, result |-> [NoRefresh EXCEPT !.called = TRUE]]
    ELSE LET start == [m |-> [m EXCEPT !.want = DescriptorsOf(peers)],
                       seen |-> {}, tried |-> {}, skipped |-> {},
                       putOK |-> {}, delOK |-> {}, errs |-> 0, haveServers |-> FALSE]
             added == rangePeers(start, PeerIDSeq(peers), out)
             final == removePeers(added, m.wg, out)
         IN  [m |-> final.m,
              result |-> [called |-> TRUE, err |-> final.errs > 0,
                          peers |-> {peers[i].id : i \in 1..Len(peers)},
                          current |-> m.wg,
                          tried |-> final.tried, skipped |-> final.skipped,
                          putOK |-> final.putOK, delOK |-> final.delOK,
                          unchanged |->
                              {id \in DOMAIN start.m.want \cap DOMAIN m.cfg :
                                  WireGuardPeerEqual(m.cfg[id], start.m.want[id])}]]

\* m.want holds the descriptors the running call was given
ManagerState ==
    [wg |-> wgPeers, ice |-> iceConns, conns |-> conns, cfg |-> wgConfig,
     want |-> <<>>, overflow |-> FALSE]

\* the descriptors a caller of AddPeer can hold for a peer: the one of a joined
\* node, or one without allowed IPs
CallerDescriptors(id) ==
    {[id |-> id, publicKey |-> KeyOf(id), allowedIps |-> ips, allowedRoutes |-> <<>>] :
        ips \in {<<PrivateAddrV4(id), PrivateAddrV6(id)>>, <<>>}}

\* the resolver's output for this node
ThisTopology(order) ==
    WireGuardPeersFor(CHOOSE a \in ACLsOf(networkACLs) : TRUE, ThisNode, order)

\* manager.Start: the interface exists once wireguard.New has succeeded
Start(ok) ==
    /\ ~wgOpen
    /\ wgOpen' = ok
    /\ refreshed' = NoRefresh
    /\ UNCHANGED <<wgPeers, iceConns, conns, wgConfig, meshNodes, meshEdges, outsideManager>>

\* manager.RefreshPeers, called on a peer observation
RefreshPeers(order) ==
    /\ \E wgpeers \in {ThisTopology(order)} : \E out \in OutcomeInputs :
          \E r \in {RefreshRun(ManagerState, wgOpen, wgpeers, out)} :
              /\ ~r.m.overflow
              /\ wgPeers' = r.m.wg
              /\ iceConns' = r.m.ice
              /\ conns' = r.m.conns
              /\ wgConfig' = r.m.cfg
              /\ refreshed' = r.result
    /\ UNCHANGED <<wgOpen, meshNodes, meshEdges, outsideManager>>

\* manager.AddPeer (lines 382-391) with a descriptor the caller holds
AddPeer(id, haveServers, outcome) ==
    /\ \E peer \in CallerDescriptors(id) :
          \E r \in {IF wgOpen
                    THEN addPeer([ManagerState EXCEPT !.want = With(<<>>, id, peer)],
                                 id, haveServers, outcome)
                    ELSE [m |-> ManagerState, err |-> FALSE, put |-> FALSE]} :
              /\ ~r.m.overflow
              /\ wgPeers' = r.m.wg
              /\ iceConns' = r.m.ice
              /\ conns' = r.m.conns
              /\ wgConfig' = r.m.cfg
    /\ refreshed' = NoRefresh
    /\ UNCHANGED <<wgOpen, meshNodes, meshEdges, outsideManager>>

\* an ICE connection is closed by the network or the remote end
ConnClosed(c) ==
    /\ conns[c].state = "open"
    /\ conns' = [conns EXCEPT ![c].state = "closed"]
    /\ refreshed' = NoRefresh
    /\ UNCHANGED <<wgOpen, wgPeers, iceConns, wgConfig, meshNodes, meshEdges, outsideManager>>

\* the goroutine of connection c, lines 663-665: delete(m.iceConns, peer.GetId())
ConnForget(c) ==
    /\ conns[c].state = "closed"
    /\ conns' = [conns EXCEPT ![c].state = "deleted"]
    /\ iceConns' = [id \in DOMAIN iceConns \ {conns[c].peer} |-> iceConns[id]]
    /\ refreshed' = NoRefresh
    /\ UNCHANGED <<wgOpen, wgPeers, wgConfig, meshNodes, meshEdges, outsideManager>>

\* the goroutine of connection c, lines 656-662: the deferred RefreshPeers
ConnRefresh(c, order) ==
    /\ conns[c].state = "deleted"
    /\ \E wgpeers \in {ThisTopology(order)} : \E out \in OutcomeInputs :
          \E r \in {RefreshRun(ManagerState, wgOpen, wgpeers, out)} :
              /\ ~r.m.overflow
              /\ wgPeers' = r.m.wg
              /\ iceConns' = r.m.ice
              /\ conns' = [r.m.conns EXCEPT ![c].state = "done"]
              /\ wgConfig' = r.m.cfg
              /\ refreshed' = r.result
    /\ UNCHANGED <<wgOpen, meshNodes, meshEdges, outsideManager>>

\* the mesh storage gains the node id as a direct peer of this node
MeshPut(id) ==
    /\ id \notin DOMAIN meshNodes
    /\ meshNodes' = With(meshNodes, id, MeshNode(KeyOf(id), TRUE, TRUE))
    /\ meshEdges' = meshEdges \cup {{ThisNode, id}}
    /\ refreshed' = NoRefresh
    /\ UNCHANGED <<wgOpen, wgPeers, iceConns, conns, wgConfig, outsideManager>>

\* the mesh storage loses the node id
MeshDelete(id) ==
    /\ id \in DOMAIN meshNodes
    /\ PeersDelete(id)
    /\ refreshed' = NoRefresh
    /\ UNCHANGED <<wgOpen, wgPeers, iceConns, conns, wgConfig, outsideManager>>

InitManager ==
    /\ wgOpen = FALSE
    /\ wgPeers = {}
    /\ wgConfig = <<>>
    /\ iceConns = <<>>
    /\ conns = <<>>
    /\ refreshed = NoRefresh
    /\ meshNodes \in {[id \in ids |-> MeshNode(KeyOf(id), TRUE, TRUE)] :
                         ids \in {{ThisNode}, {ThisNode, "P2"}}}
    /\ meshEdges = {{ThisNode, id} : id \in DOMAIN meshNodes \ {ThisNode}}
    /\ networkACLs = {DefaultAcceptACL}
    /\ meshRoutes = <<>>
    /\ resolved = NoResult
    /\ previous = NoResult
    /\ groups = <<>>
    /\ IdleACL
    /\ IdleMembership
    /\ IdleSnapshot
    /\ IdleObserver
    /\ IdleBootstrap
    /\ IdleEquality
    /\ IdleEndpoint
    /\ IdleClose
    /\ IdleLock
    /\ IdleHook
    /\ IdleNet
    /\ IdleGlob
    /\ IdleConnect
    /\ IdleRelay

NextManager ==
    \/ \E ok \in BOOLEAN : Start(ok)
    \/ \E order \in ManagerOrders : RefreshPeers(order)
    \/ \E id \in PeerIDs, haveServers \in BOOLEAN, outcome \in Outcomes \ {"list"} :
          AddPeer(id, haveServers, outcome)
    \/ \E c \in DOMAIN conns : ConnClosed(c)
    \/ \E c \in DOMAIN conns : ConnForget(c)
    \/ \E c \in DOMAIN conns, order \in ManagerOrders : ConnRefresh(c, order)
    \/ \E id \in PeerIDs : MeshPut(id)
    \/ \E id \in PeerIDs : MeshDelete(id)

SpecManager == InitManager /\ [][NextManager]_vars

\* the ICE proxy connections of a peer that are open
LiveConns(id) == {c \in DOMAIN conns : conns[c].peer = id /\ conns[c].state = "open"}

(***************************************************************************)
(* C8: at any time at most one ICE proxy connection per peer id is live,   *)
(* across connection closes, peer removals and re-additions of the peer.   *)
(***************************************************************************)
C8_OneLiveICEConnPerPeer ==
    \A id \in PeerIDs : Cardinality(LiveConns(id)) <= 1

\* the peer ids of topology(self) on the current mesh storage
TopologyOfThisNode == TopologyIDs(ThisNode, CHOOSE order \in ManagerOrders : TRUE)

(***************************************************************************)
(* C9: after a RefreshPeers call on a started manager (the WireGuard       *)
(* interface exists) that returns no error, the peer ids configured in the *)
(* interface are exactly the peer ids of topology(self).                   *)
(***************************************************************************)
C9_DriverPeersMatchTopology ==
    (refreshed.called /\ ~refreshed.err /\ wgOpen) => wgPeers = TopologyOfThisNode

\* C9 as the specification words it: after any RefreshPeers call that returns
\* no error, the peer ids of the interface are those of topology(self)
C9_AnyRefreshMatchesTopology ==
    (refreshed.called /\ ~refreshed.err) => wgPeers = TopologyOfThisNode

\* an error-free refresh that has put one peer and deleted another
C9_Witness ==
    /\ refreshed.called /\ ~refreshed.err /\ wgOpen
    /\ refreshed.putOK # {}
    /\ refreshed.delOK # {}
    /\ wgPeers = TopologyOfThisNode

(***************************************************************************)
(* C10: in a RefreshPeers call every peer of the resolver's output is put  *)
(* and every other peer of the interface is deleted, or fails on its own,  *)
(* whatever happened to the other peers; the returned error is nil iff     *)
(* every one of these puts and deletes succeeded.                          *)
(***************************************************************************)
C10_FailuresDoNotBlockOtherPeers ==
    refreshed.called =>
        /\ refreshed.tried \cup refreshed.skipped = refreshed.peers \cup refreshed.current
        /\ refreshed.skipped \subseteq ICEPeers
        /\ ~refreshed.err <=> (/\ refreshed.putOK = refreshed.peers
                               /\ refreshed.delOK = refreshed.current \ refreshed.peers)

\* a refresh in which one peer failed and another was still put
C10_Witness ==
    /\ refreshed.called /\ refreshed.err
    /\ refreshed.peers = {"P2", "P3"}
    /\ Cardinality(refreshed.putOK) = 1
    /\ refreshed.tried = refreshed.peers

(***************************************************************************)
(* C11: a RefreshPeers call puts no peer whose descriptor in the           *)
(* resolver's output is equal, under WireGuardPeerEqual, to the descriptor *)
(* the interface already holds for it.                                     *)
(***************************************************************************)
C11_UnchangedPeersNotPut ==
    refreshed.called => refreshed.unchanged \cap refreshed.putOK = {}

(***************************************************************************)
(* Cluster bootstrap: store.bootstrap and store.initialBootstrapLeader on  *)
(* every bootstrap server, over one replicated log.                        *)
(***************************************************************************)
BootServerIDs == {"B1", "B2", "B3"}

\* state.IPv6PrefixKey, state.IPv4PrefixKey, state.MeshDomainKey
StateKeys == <<"IPv6PrefixKey", "IPv4PrefixKey", "MeshDomainKey">>

outsideBootstrap == <<aclVars, groups, resolverVars, membershipVars, snapshotVars,
                      observerVars, managerVars,
    equalityVars,
    endpointVars,
    closeVars,
    lockVars,
    hookVars,
    netVars,
    globVars,
    connectVars,
    relayVars>>

\* raft runs on the servers whose bootstrap call has returned nil
RaftRunning == {s \in bootServers : bootPc[s] \in {"waiting", "member"}}

\* the value initialBootstrapLeader puts under a key on server s: the ULA is
\* generated by the server (util.GenerateULA), the others are its options
StateValue(s, key) == IF key = "IPv6PrefixKey" THEN <<"ula", s>> ELSE <<"opt", key>>

\* initialBootstrapLeader, lines 228-240: the three puts in order, the first
\* failing one returns; okPuts of them succeed
PutMeshState(s, okPuts) ==
    [i \in 1..okPuts |-> StateValue(s, StateKeys[i])]

\* Storage().Get(ctx, state.IPv6PrefixKey) on the local storage
firstBootstrap(s) == 1 \notin DOMAIN storage[s]

\* store.bootstrap up to the start of its goroutine (lines 44-168)
Bootstrap(s, restoreSnapshot) ==
    /\ s \in bootServers
    /\ bootPc[s] = "down"
    /\ IF ~firstBootstrap(s)
       THEN \* rejoinBootstrapServer / recoverWireguard
            /\ bootPc' = [bootPc EXCEPT ![s] = "member"]
            /\ UNCHANGED raftHasState
       ELSE IF restoreSnapshot
       THEN \* snapshotter.Restore returns its error (part_006:124-129)
            /\ bootPc' = [bootPc EXCEPT ![s] = "failed"]
            /\ UNCHANGED raftHasState
       ELSE IF s \in raftHasState
       THEN \* raft.ErrCantBootstrap: rejoin
            /\ bootPc' = [bootPc EXCEPT ![s] = "member"]
            /\ UNCHANGED raftHasState
       ELSE /\ bootPc' = [bootPc EXCEPT ![s] = "waiting"]
            /\ raftHasState' = raftHasState \cup {s}
    /\ UNCHANGED <<bootServers, raftLeader, meshState, storage, stateWrites, outsideBootstrap>>

\* the goroutine of store.bootstrap once raft is ready (lines 169-208)
BootstrapReady(s, okPuts) ==
    /\ s \in bootServers
    /\ bootPc[s] = "waiting"
    /\ raftLeader # ""
    /\ IF raftLeader = s
       THEN \E state \in {PutMeshState(s, okPuts)} :
              /\ meshState' = [i \in DOMAIN meshState \cup DOMAIN state |->
                                  IF i \in DOMAIN state THEN state[i] ELSE meshState[i]]
              /\ storage' = [storage EXCEPT ![s] = meshState']
              /\ stateWrites' = [i \in 1..Len(StateKeys) |->
                                    stateWrites[i] + (IF i <= okPuts THEN 1 ELSE 0)]
              /\ bootPc' = [bootPc EXCEPT
                               ![s] = IF okPuts = Len(StateKeys) THEN "member" ELSE "failed"]
              /\ UNCHANGED raftLeader
       ELSE \* initialBootstrapNonLeader joins the leader
            /\ okPuts = Len(StateKeys)
            /\ bootPc' = [bootPc EXCEPT ![s] = "member"]
            /\ UNCHANGED <<raftLeader, meshState, storage, stateWrites>>
    /\ UNCHANGED <<bootServers, raftHasState, outsideBootstrap>>

\* raft elects s: it runs, a quorum of the configured voters runs, and its log
\* holds every committed entry
Elect(s) ==
    /\ s \in RaftRunning
    /\ s # raftLeader
    /\ 2 * Cardinality(RaftRunning) > Cardinality(bootServers)
    /\ storage[s] = meshState
    /\ raftLeader' = s
    /\ UNCHANGED <<bootServers, bootPc, raftHasState, meshState, storage, stateWrites,
                   outsideBootstrap>>

\* raft applies the committed entries to the local storage of s
Replicate(s) ==
    /\ s \in RaftRunning
    /\ raftLeader # ""
    /\ storage[s] # meshState
    /\ storage' = [storage EXCEPT ![s] = meshState]
    /\ UNCHANGED <<bootServers, bootPc, raftHasState, raftLeader, meshState, stateWrites,
                   outsideBootstrap>>

\* the process of s ends; its data dir stays
Shutdown(s) ==
    /\ s \in bootServers
    /\ bootPc[s] # "down"
    /\ bootPc' = [bootPc EXCEPT ![s] = "down"]
    /\ raftLeader' = IF raftLeader = s THEN "" ELSE raftLeader
    /\ UNCHANGED <<bootServers, raftHasState, meshState, storage, stateWrites,
                   outsideBootstrap>>

InitBootstrap ==
    /\ bootServers \in {{"B1"}, BootServerIDs}
    /\ bootPc = [s \in bootServers |-> "down"]
    /\ raftHasState = {}
    /\ raftLeader = ""
    /\ meshState = <<>>
    /\ storage = [s \in bootServers |-> <<>>]
    /\ stateWrites = [i \in 1..Len(StateKeys) |-> 0]
    /\ groups = <<>>
    /\ IdleACL
    /\ IdleMesh
    /\ IdleMembership
    /\ IdleSnapshot
    /\ IdleObserver
    /\ IdleManager
    /\ IdleEquality
    /\ IdleEndpoint
    /\ IdleClose
    /\ IdleLock
    /\ IdleHook
    /\ IdleNet
    /\ IdleGlob
    /\ IdleConnect
    /\ IdleRelay

NextBootstrap ==
    \/ \E s \in BootServerIDs, restoreSnapshot \in BOOLEAN : Bootstrap(s, restoreSnapshot)
    \/ \E s \in BootServerIDs, okPuts \in 0..Len(StateKeys) : BootstrapReady(s, okPuts)
    \/ \E s \in BootServerIDs : Elect(s)
    \/ \E s \in BootServerIDs : Replicate(s)
    \/ \E s \in BootServerIDs : Shutdown(s)

SpecBootstrap == InitBootstrap /\ [][NextBootstrap]_vars

(***************************************************************************)
(* C12: each mesh-state key (IPv6 ULA supernet, IPv4 supernet, mesh        *)
(* domain) is written at most once over the life of the cluster, whatever  *)
(* restarts and leadership changes the bootstrap servers go through.       *)
(***************************************************************************)
C12_MeshStateWrittenOnce ==
    \A i \in DOMAIN stateWrites : stateWrites[i] <= 1

\* the last request was a Leave for a named node, with authentication enabled,
\* whose proxied-for identity or, when not proxied, authenticated caller is
\* absent or another node
LeaveByAnother ==
    /\ leaveCall.called
    /\ leaveCall.id # ""
    /\ ~insecure
    /\ ~Authenticated(leaveCall.ctx, leaveCall.id)

\* the call left the raft configuration and the node records as it met them
LeaveChangedNothing ==
    /\ raftServers = leaveCall.raftServers
    /\ meshNodes = leaveCall.meshNodes

(***************************************************************************)
(* C13: with authentication enabled, a Leave for node N received by the    *)
(* leader from a caller whose proxied-for identity, or authenticated       *)
(* identity when not proxied, is absent or differs from N is answered      *)
(* PermissionDenied, and the raft configuration and the node records stay  *)
(* as they were; a server that is not the leader answers                   *)
(* FailedPrecondition, and changes nothing either.                         *)
(***************************************************************************)
C13_LeaveByAnotherIsDenied ==
    LeaveByAnother =>
        /\ leaveResult = (IF isLeader THEN "PermissionDenied" ELSE "FailedPrecondition")
        /\ LeaveChangedNothing

\* C13 as worded: PermissionDenied on whatever server receives the request
C13_AlwaysPermissionDenied ==
    LeaveByAnother => leaveResult = "PermissionDenied" /\ LeaveChangedNothing

C13_Witness ==
    /\ LeaveByAnother
    /\ isLeader
    /\ leaveCall.id = "P2"
    /\ leaveCall.ctx.peer = "P1"
    /\ "P2" \in DOMAIN meshNodes
    /\ "P2" \in DOMAIN raftServers
    /\ leaveResult = "PermissionDenied"

\* the descriptors returned by the last call
ResolvedPeers == {resolved.peers[i] : i \in 1..Len(resolved.peers)}

\* the nodes one of whose private addresses the descriptor's allowed-IPs hold
AddressedBy(peer) ==
    {t \in DOMAIN meshNodes : \E a \in SeqToSet(NodeAddrs(t)) : Contains(peer.allowedIps, a)}

(***************************************************************************)
(* C15: for every node self, every descriptor d of topology(self) and      *)
(* every node t other than d whose private address is in d's allowed-IPs,  *)
(* every path from self to t in the filtered graph G' passes through d:    *)
(* t cannot be reached from self once d is taken out.                      *)
(***************************************************************************)
C15_PathsPassThroughNeighbour ==
    resolved.self \in DOMAIN meshNodes =>
        \A peer \in ResolvedPeers :
            \A t \in AddressedBy(peer) \ {peer.id} :
                t \notin ReachableFrom({resolved.self}, {peer.id})

(***************************************************************************)
(* C17: no prefix of a route owned by self is in the allowed-IPs of any    *)
(* descriptor of topology(self), also when a direct neighbour of self or a *)
(* node behind one advertises the same prefix.                             *)
(***************************************************************************)
C17_OwnRoutesExcluded ==
    resolved.self \in DOMAIN meshNodes =>
        \A peer \in ResolvedPeers :
            \A prefix \in SeqToSet(RoutePrefixes(resolved.self)) :
                ~Contains(peer.allowedIps, prefix)

\* self owns a route to a prefix that a resolved direct neighbour advertises
\* too, and another resolved neighbour routes for a node behind it
C17_Witness ==
    /\ resolved.self = "P1"
    /\ RoutePrefixes("P1") # <<>>
    /\ \E peer \in ResolvedPeers :
          /\ peer.id = "P2"
          /\ SeqToSet(RoutePrefixes("P2")) \cap SeqToSet(RoutePrefixes("P1")) # {}
          /\ AddressedBy(peer) # {"P2"}

(***************************************************************************)
(* C18: the allowed-routes of every descriptor of topology(self) hold      *)
(* every route prefix that the computation placed in the descriptor's      *)
(* allowed-IPs (the prefixes of the routes owned by the neighbour or by a  *)
(* node reached from it, self's own excluded).                             *)
(***************************************************************************)
C18_AllowedRoutesHoldRoutePrefixes ==
    \A peer \in ResolvedPeers :
        \A prefix \in SeqToSet(peer.allowedIps) :
            prefix[1] = "cidr" => Contains(peer.allowedRoutes, prefix)

\* node ids in the order of Go's string comparison
IDRank(id) == CHOOSE i \in 1..4 : <<"P1", "P2", "P3", "P4">>[i] = id

(***************************************************************************)
(* C19: the list topology(self) returns is sorted by node id, ascending.   *)
(***************************************************************************)
C19_SortedByNodeID ==
    \A i, j \in 1..Len(resolved.peers) :
        i < j => IDRank(resolved.peers[i].id) < IDRank(resolved.peers[j].id)

(***************************************************************************)
(* C20: when self has no public key, topology(self) is the empty list,     *)
(* whatever edges and neighbours self has.                                 *)
(***************************************************************************)
C20_NoKeyNoPeers ==
    (resolved.self \in DOMAIN meshNodes /\ meshNodes[resolved.self].publicKey = "") =>
        resolved.peers = <<>>

(***************************************************************************)
(* The resolver across two calls and a policy change: a node's topology is *)
(* resolved, a network ACL may be put, and a topology is resolved again.   *)
(***************************************************************************)
\* a deny rule above every stored priority, between two nodes
DenyACL(name, src, dst) == ACLRecord(name, 200, "deny", <<src>>, <<dst>>, NoCidrs, NoCidrs)

\* the deny rules an administrator puts
PutACLInputs ==
    {DenyACL("deny-p1-p3", "P1", "P3"),
     DenyACL("deny-any-p4", "*", "P4")}

\* networking.PutNetworkACL: the ACL is stored under its name
PutNetworkACL(acl) ==
    /\ resolved # NoResult
    /\ previous = NoResult
    /\ networkACLs = resolved.acls
    /\ networkACLs' = {a \in networkACLs : a.name # acl.name} \cup {acl}
    /\ UNCHANGED <<meshNodes, meshEdges, meshRoutes, resolved, previous, groups,
                   outsideResolver>>

\* a second call of mesh.WireGuardPeersFor
ResolveAgain(self) ==
    /\ resolved # NoResult
    /\ previous = NoResult
    /\ previous' = resolved
    /\ \E acls \in ACLsOf(networkACLs), order \in Orders :
          resolved' = [self |-> self, err |-> FALSE,
                       peers |-> WireGuardPeersFor(acls, self, order),
                       acls |-> networkACLs]
    /\ UNCHANGED <<meshVars, groups, outsideResolver>>

InitPolicy ==
    /\ meshNodes = [id \in NodeIDs |-> MeshNode(KeyOf(id), TRUE, TRUE)]
    /\ meshEdges \in SUBSET {e \in SUBSET DOMAIN meshNodes : Cardinality(e) = 2}
    /\ networkACLs \in {{DefaultAcceptACL}, {}}
    /\ meshRoutes \in {<<>>, <<Route("r3", "P3", <<"10.0.0.0/24">>)>>}
    /\ resolved = NoResult
    /\ previous = NoResult
    /\ groups = <<>>
    /\ IdleACL
    /\ IdleMembership
    /\ IdleSnapshot
    /\ IdleObserver
    /\ IdleManager
    /\ IdleBootstrap
    /\ IdleEquality
    /\ IdleEndpoint
    /\ IdleClose
    /\ IdleLock
    /\ IdleHook
    /\ IdleNet
    /\ IdleGlob
    /\ IdleConnect
    /\ IdleRelay

NextPolicy ==
    \/ \E self \in NodeIDs : Resolve(self)
    \/ \E acl \in PutACLInputs : PutNetworkACL(acl)
    \/ \E self \in NodeIDs : ResolveAgain(self)

SpecPolicy == InitPolicy /\ [][NextPolicy]_vars

\* the union of the allowed-IPs of the descriptors of a result
AllowedUnion(result) ==
    UNION {SeqToSet(result.peers[i].allowedIps) : i \in 1..Len(result.peers)}

\* the descriptor ids of a result
IDsOf(result) == {result.peers[i].id : i \in 1..Len(result.peers)}

\* between the two calls for the same node, exactly one deny ACL was put,
\* with a priority above every ACL stored before
DenyAdded ==
    /\ previous # NoResult
    /\ resolved.self = previous.self
    /\ \E acl \in resolved.acls \ previous.acls :
          /\ resolved.acls = previous.acls \cup {acl}
          /\ acl.action = "deny"
          /\ \A a \in previous.acls : a.priority < acl.priority

\* G' lost no edge between the two calls
NoEdgeAdded ==
    \A a \in DOMAIN meshNodes :
        GraphUnder(resolved.acls)[a] \subseteq GraphUnder(previous.acls)[a]

(***************************************************************************)
(* C14: with nodes, edges, routes and groups fixed, putting a deny ACL     *)
(* with a priority above every existing ACL adds no edge to G' and, for    *)
(* every self, adds no prefix to the allowed-IPs of topology(self) taken   *)
(* over all its descriptors, and no descriptor.                            *)
(***************************************************************************)
C14_DenyShrinksTopology ==
    DenyAdded =>
        /\ NoEdgeAdded
        /\ IDsOf(resolved) \subseteq IDsOf(previous)
        /\ AllowedUnion(resolved) \subseteq AllowedUnion(previous)

\* C14 as worded: no descriptor of topology(self) gains a prefix
C14_NoDescriptorGrows ==
    DenyAdded =>
        /\ NoEdgeAdded
        /\ \A peer \in ResolvedPeers :
              \E i \in 1..Len(previous.peers) :
                  /\ previous.peers[i].id = peer.id
                  /\ SeqToSet(peer.allowedIps) \subseteq SeqToSet(previous.peers[i].allowedIps)

\* a deny rule removed a direct neighbour of a node that still has peers
C14_Witness ==
    /\ DenyAdded
    /\ IDsOf(resolved) # {}
    /\ IDsOf(resolved) # IDsOf(previous)
    /\ AllowedUnion(resolved) # AllowedUnion(previous)

NameRank(acl) == CHOOSE i \in 1..Len(ACLNames) : ACLNames[i] = acl.name

\* the matching ACLs of the highest priority
TopMatchingIndexes ==
    {i \in MatchingIndexes :
        \A j \in MatchingIndexes : aclList[i].priority >= aclList[j].priority}

(***************************************************************************)
(* C21: on a list sorted by Sort(SortDescending), when several matching    *)
(* ACLs share the highest priority, the decision of Accept is that of the  *)
(* one that comes first by name in descending order, whatever order the    *)
(* ACLs were listed in.                                                    *)
(***************************************************************************)
C21_TiesBrokenByName ==
    (aclSorted /\ aclResult # "none" /\ MatchingIndexes # {}) =>
        LET winner == CHOOSE i \in TopMatchingIndexes :
                          \A j \in TopMatchingIndexes :
                              NameRank(aclList[i]) >= NameRank(aclList[j])
        IN  (aclResult = "accept") <=> (aclList[winner].action = "accept")

(***************************************************************************)
(* Descriptor equality: WireGuardPeerEqual applied to two descriptors.     *)
(***************************************************************************)
outsideEquality == <<aclVars, groups, resolverVars, membershipVars, snapshotVars,
                     observerVars, managerVars, bootstrapVars,
    endpointVars,
    closeVars,
    lockVars,
    hookVars,
    netVars,
    globVars,
    connectVars,
    relayVars>>

\* the strings of the lists, in the order of Go's string comparison
EqualityStrings == <<"10.0.0.1/32", "10.0.0.2/32">>

StringRank(x) == CHOOSE i \in 1..Len(EqualityStrings) : EqualityStrings[i] = x

\* sort.Strings
SortStrings(seq) ==
    CHOOSE s \in {Permutation(seq, f) : f \in Bijections(Len(seq))} :
        \A i, j \in 1..Len(s) : i < j => StringRank(s[i]) <= StringRank(s[j])

\* the argument after the sorts of equality.go:69-74
SortedInPlace(peer) ==
    [peer EXCEPT !.wireguardEndpoints = SortStrings(@),
                 !.allowedIps = SortStrings(@),
                 !.allowedRoutes = SortStrings(@)]

StringListInputs ==
    {<<>>, <<EqualityStrings[1], EqualityStrings[2]>>,
           <<EqualityStrings[2], EqualityStrings[1]>>}

FeaturePort(feature, port) == [feature |-> feature, port |-> port]

FeatureListInputs ==
    {<<>>, <<FeaturePort("MESH_API", 8443), FeaturePort("ICE_NEGOTIATION", 9443)>>,
           <<FeaturePort("ICE_NEGOTIATION", 9443), FeaturePort("MESH_API", 8443)>>}

\* a descriptor with the given lists
PeerWith(features, endpoints, ips, routes) ==
    [id |-> "P2", publicKey |-> "key-P2", primaryEndpoint |-> "e1:51820",
     zoneAwarenessId |-> "z1", addressIpv4 |-> "172.16.0.2/32",
     addressIpv6 |-> "fd00::2/128", proto |-> "udp",
     features |-> features, wireguardEndpoints |-> endpoints,
     allowedIps |-> ips, allowedRoutes |-> routes]

PeerInputs ==
    {PeerWith(f, e, i, r) : f \in FeatureListInputs, e \in StringListInputs,
                            i \in StringListInputs,
                            r \in StringListInputs \ {<<>>}}

ScalarFields == {"id", "publicKey", "primaryEndpoint", "zoneAwarenessId",
                 "addressIpv4", "addressIpv6", "proto"}

\* the descriptors that differ from one of PeerInputs in at most one scalar field
OtherPeerInputs ==
    PeerInputs \cup {[p EXCEPT ![f] = "other"] : p \in PeerInputs, f \in ScalarFields}

\* mesh.WireGuardPeerEqual(a, b)
Compare ==
    /\ eqResult = "none"
    /\ eqResult' = IF WireGuardPeerEqual(eqA, eqB) THEN "equal" ELSE "unequal"
    /\ IF IsNil(eqA) \/ IsNil(eqB)
       THEN UNCHANGED <<eqA, eqB>>
       ELSE /\ eqA' = SortedInPlace(eqA)
            /\ eqB' = SortedInPlace(eqB)
    /\ UNCHANGED outsideEquality

InitEquality ==
    /\ eqA \in PeerInputs \cup {NilPeer}
    /\ eqB \in OtherPeerInputs \cup {NilPeer}
    /\ eqResult = "none"
    /\ groups = <<>>
    /\ IdleACL
    /\ IdleMesh
    /\ IdleMembership
    /\ IdleSnapshot
    /\ IdleObserver
    /\ IdleManager
    /\ IdleBootstrap
    /\ IdleEndpoint
    /\ IdleClose
    /\ IdleLock
    /\ IdleHook
    /\ IdleNet
    /\ IdleGlob
    /\ IdleConnect
    /\ IdleRelay

NextEquality == Compare

SpecEquality == InitEquality /\ [][NextEquality]_vars

\* the two descriptors agree on every scalar field of the claim
SameScalars == \A f \in ScalarFields : eqA[f] = eqB[f]

(***************************************************************************)
(* C22: two descriptors are equal iff they agree on id, public key,        *)
(* primary endpoint, zone tag, v4 and v6 addresses and transport proto,    *)
(* and on allowed-ips, allowed-routes and feature ports compared as sorted *)
(* lists (whatever the order of the elements of those three lists).        *)
(***************************************************************************)
C22_EqualityUpToListOrder ==
    (eqResult # "none" /\ ~IsNil(eqA) /\ ~IsNil(eqB)) =>
        (eqResult = "equal" <=>
            /\ SameScalars
            /\ SortedEqual(eqA.allowedIps, eqB.allowedIps)
            /\ SortedEqual(eqA.allowedRoutes, eqB.allowedRoutes)
            /\ SortedEqual(eqA.features, eqB.features))

(***************************************************************************)
(* Endpoint selection: determinePeerEndpoint (manager.go:558-628) and what *)
(* addPeer does with its result (manager.go:479-487).  An endpoint is a    *)
(* host:port string; the zero netip.AddrPort is "".                        *)
(***************************************************************************)
outsideEndpoint == <<aclVars, groups, resolverVars, membershipVars, snapshotVars,
                     observerVars, managerVars, bootstrapVars, equalityVars,
    closeVars,
    lockVars,
    hookVars,
    netVars,
    globVars,
    connectVars,
    relayVars>>

EndpointNames == {"primary:51820", "lan:51820", "wan:51820"}

\* the endpoints whose address lies in a CIDR endpoints.Detect reports
LocalEndpoints == {"lan:51820"}

\* net.ResolveUDPAddr("udp", name)
ResolveUDPAddr(env, name) ==
    IF name \in env.resolves THEN [addr |-> name, err |-> FALSE]
    ELSE [addr |-> "", err |-> TRUE]

\* localCIDRs.Contains(endpoint.Addr()); the zero address is in no CIDR
LocalCIDRsContain(endpoint) == endpoint \in LocalEndpoints

\* the loop over peer.GetWireguardEndpoints() (lines 599-624)
RECURSIVE rangeWireguardEndpoints(_, _, _)
rangeWireguardEndpoints(env, additional, endpoint) ==
    IF additional = <<>> THEN endpoint
    ELSE LET r == ResolveUDPAddr(env, Head(additional))
         IN  IF r.err THEN rangeWireguardEndpoints(env, Tail(additional), endpoint)
             ELSE IF LocalCIDRsContain(r.addr) THEN r.addr
             ELSE rangeWireguardEndpoints(env, Tail(additional), endpoint)

\* lines 584-626, entered with the endpoint the primary endpoint gave
zoneAwareEndpoint(peer, env, endpoint) ==
    IF env.zoneAwarenessID # "" /\ peer.zoneAwarenessId = env.zoneAwarenessID
    THEN IF env.detectErr THEN [endpoint |-> endpoint, err |-> TRUE]
         ELSE IF ~LocalCIDRsContain(endpoint) /\ Len(peer.wireguardEndpoints) > 0
         THEN [endpoint |-> rangeWireguardEndpoints(env, peer.wireguardEndpoints, endpoint),
               err |-> FALSE]
         ELSE [endpoint |-> endpoint, err |-> FALSE]
    ELSE [endpoint |-> endpoint, err |-> FALSE]

\* determinePeerEndpoint (lines 558-628) as a function of the peer and of
\* what resolves; an ICE negotiation returns the local proxy address
selectEndpoint(peer, env) ==
    IF peer.ice
    THEN IF ~env.haveServers \/ ~env.negotiateOK THEN [endpoint |-> "", err |-> TRUE]
         ELSE [endpoint |-> "ice:0", err |-> FALSE]
    ELSE IF peer.primaryEndpoint # "" /\ ResolveUDPAddr(env, peer.primaryEndpoint).err
    THEN [endpoint |-> "", err |-> TRUE]
    ELSE zoneAwareEndpoint(peer, env, peer.primaryEndpoint)

\* addPeer, lines 479-487 and 528-531: a non-ICE peer whose endpoint could
\* not be determined is not put
AddPeerEndpoint ==
    /\ ~epResult.called
    /\ \E e \in {selectEndpoint(epPeer, epEnv)} :
          epResult' = [called |-> TRUE,
                       err |-> e.err /\ ~epPeer.ice,
                       endpoint |-> e.endpoint,
                       put |-> ~(e.err /\ ~epPeer.ice)]
    /\ UNCHANGED <<epPeer, epEnv, outsideEndpoint>>

InitEndpoint ==
    /\ epPeer \in [ice : BOOLEAN, primaryEndpoint : {"", "primary:51820"},
                   zoneAwarenessId : {"z1", "z2"},
                   wireguardEndpoints :
                       {<<>>, <<"lan:51820">>, <<"wan:51820">>,
                        <<"wan:51820", "lan:51820">>, <<"lan:51820", "wan:51820">>}]
    /\ epEnv \in [zoneAwarenessID : {"", "z1"}, resolves : SUBSET EndpointNames,
                  detectErr : BOOLEAN, haveServers : BOOLEAN, negotiateOK : BOOLEAN]
    /\ epResult = NoEndpoint
    /\ groups = <<>>
    /\ IdleACL
    /\ IdleMesh
    /\ IdleMembership
    /\ IdleSnapshot
    /\ IdleObserver
    /\ IdleManager
    /\ IdleBootstrap
    /\ IdleEquality
    /\ IdleClose
    /\ IdleLock
    /\ IdleHook
    /\ IdleNet
    /\ IdleGlob
    /\ IdleConnect
    /\ IdleRelay

NextEndpoint == AddPeerEndpoint

SpecEndpoint == InitEndpoint /\ [][NextEndpoint]_vars

\* the additional endpoints of the peer that resolve to a local address
LocalAdditional ==
    {i \in 1..Len(epPeer.wireguardEndpoints) :
        /\ epPeer.wireguardEndpoints[i] \in epEnv.resolves
        /\ LocalCIDRsContain(epPeer.wireguardEndpoints[i])}

(***************************************************************************)
(* C23: for a non-ICE peer whose primary endpoint does not resolve, that   *)
(* shares this node's zone and has an additional endpoint resolving to an  *)
(* address inside a locally detected CIDR, addPeer returns no error and    *)
(* the peer is put with that additional endpoint.                          *)
(***************************************************************************)
C23_ResolutionErrorFallsThrough ==
    (/\ epResult.called
     /\ ~epPeer.ice
     /\ epPeer.primaryEndpoint # ""
     /\ epPeer.primaryEndpoint \notin epEnv.resolves
     /\ epEnv.zoneAwarenessID # ""
     /\ epPeer.zoneAwarenessId = epEnv.zoneAwarenessID
     /\ ~epEnv.detectErr
     /\ LocalAdditional # {}) =>
        /\ ~epResult.err
        /\ epResult.put
        /\ \E i \in LocalAdditional : epResult.endpoint = epPeer.wireguardEndpoints[i]

(***************************************************************************)
(* C24: every PeerObservation the observer loop processes, for an added or *)
(* for a removed peer, refreshes the tunnel peers once and emits one watch *)
(* event: node-leave for a removal, node-join for an addition.             *)
(***************************************************************************)
C24_PeerObservationRefreshesAndEmits ==
    lastObs.kind = "peer" =>
        /\ lastObs.refreshes = 1
        /\ lastObs.event = (IF lastObs.dataRemoved THEN "node-leave" ELSE "node-join")

(***************************************************************************)
(* C26: a FailedHeartbeat observation takes a peer out of the raft         *)
(* configuration, or deletes its node record, only when this node is the   *)
(* leader and the peer's suffrage is Nonvoter; no other observation        *)
(* removes anything.                                                       *)
(***************************************************************************)
RemovedInStep(id) ==
    \/ id \in DOMAIN raftServers /\ id \notin DOMAIN raftServers'
    \/ id \in DOMAIN meshNodes /\ id \notin DOMAIN meshNodes'

C26_OnlyLeaderRemovesOnlyNonvoters ==
    [][\A id \in MemberIDs :
          RemovedInStep(id) =>
              /\ isLeader
              /\ id \in DOMAIN raftServers
              /\ raftServers[id] = "Nonvoter"
              /\ lastObs'.kind = "failed"]_vars

\* the leader has just processed the heartbeat failure past the threshold of
\* a Voter, and the Voter is still in the configuration with its node record
C26_Witness ==
    /\ lastObs.kind = "failed"
    /\ lastObs.leader
    /\ lastObs.suffrage = "Voter"
    /\ lastObs.peer \notin DOMAIN failedHeartbeats
    /\ lastObs.peer \in DOMAIN raftServers
    /\ lastObs.peer \in DOMAIN meshNodes

(***************************************************************************)
(* Closing the mesh store (meshStore.Close).                               *)
(***************************************************************************)
outsideClose == <<aclVars, groups, resolverVars, membershipVars, snapshotVars,
                  observerVars, managerVars, bootstrapVars, equalityVars,
                  endpointVars,
    lockVars,
    hookVars,
    netVars,
    globVars,
    connectVars,
    relayVars>>

\* one call made by Close and whether it returned an error (errors are logged)
Step(call, err) == [call |-> call, err |-> err]

\* meshStore.Close; the arguments are the outcomes of the calls it makes.  The
\* deferred function that closes the network manager runs when Close returns,
\* after every other call.
meshStoreClose(nwErr, pluginsErr, raftErr, leaveErr) ==
    /\ IF ~storeOpen
       THEN /\ closeResult' = "ErrNotOpen"
            /\ closeSteps' = <<>>
            /\ UNCHANGED storeOpen
       ELSE /\ closeSteps' =
                   <<Step("kvSubCancel", FALSE)>>
                   \o (IF closeOpts.plugins
                       THEN <<Step("plugins.Close", pluginsErr)>> ELSE <<>>)
                   \o (IF closeOpts.raft
                       THEN <<Step("raft.Stop", raftErr)>> ELSE <<>>)
                   \o (IF closeOpts.leaveOnShutdown
                       THEN <<Step("leaveCluster", leaveErr)>> ELSE <<>>)
                   \o (IF closeOpts.nw
                       THEN <<Step("nw.Close", nwErr)>> ELSE <<>>)
            /\ storeOpen' = FALSE
            /\ closeResult' = "nil"
    /\ UNCHANGED <<closeOpts, outsideClose>>

InitClose ==
    /\ storeOpen \in BOOLEAN
    /\ closeOpts \in [nw : BOOLEAN, plugins : BOOLEAN, raft : BOOLEAN,
                      leaveOnShutdown : BOOLEAN]
    /\ closeSteps = <<>>
    /\ closeResult = "none"
    /\ groups = <<>>
    /\ IdleACL
    /\ IdleMesh
    /\ IdleMembership
    /\ IdleSnapshot
    /\ IdleObserver
    /\ IdleManager
    /\ IdleBootstrap
    /\ IdleEquality
    /\ IdleEndpoint
    /\ IdleLock
    /\ IdleHook
    /\ IdleNet
    /\ IdleGlob
    /\ IdleConnect
    /\ IdleRelay

NextClose ==
    \E nwErr, pluginsErr, raftErr, leaveErr \in BOOLEAN :
        meshStoreClose(nwErr, pluginsErr, raftErr, leaveErr)

SpecClose == InitClose /\ [][NextClose]_vars

\* the position of a call among the steps of the last Close, 0 when not made
StepOf(call) ==
    IF \E i \in DOMAIN closeSteps : closeSteps[i].call = call
    THEN CHOOSE i \in DOMAIN closeSteps : closeSteps[i].call = call
    ELSE 0

CalledBefore(a, b) == (StepOf(a) # 0 /\ StepOf(b) # 0) => StepOf(a) < StepOf(b)

(***************************************************************************)
(* C25: Close cancels the storage subscription, then closes the network    *)
(* manager, then closes the plugins, then stops the replicated log; with   *)
(* leave-on-shutdown the node leaves the raft configuration before the log *)
(* is stopped.                                                             *)
(***************************************************************************)
C25_TeardownOrder ==
    closeResult = "nil" =>
        /\ StepOf("kvSubCancel") = 1
        /\ CalledBefore("kvSubCancel", "nw.Close")
        /\ CalledBefore("nw.Close", "plugins.Close")
        /\ CalledBefore("plugins.Close", "raft.Stop")
        /\ CalledBefore("leaveCluster", "raft.Stop")

(***************************************************************************)
(* C27: a Leave of a raft member that succeeds removes the node from the   *)
(* raft configuration, then waits for the barrier, and only then deletes   *)
(* the node record.                                                        *)
(***************************************************************************)
C27_RemoveThenBarrierThenDelete ==
    (/\ leaveCall.called
     /\ leaveResult = "OK"
     /\ leaveCall.id \in DOMAIN leaveCall.raftServers)
    => leaveCall.steps = <<"RemoveServer", "Barrier", "peers.Delete">>

(***************************************************************************)
(* Locking of the network manager.  Goroutines call RefreshPeers, AddPeer, *)
(* StartMasquerade and Close on one manager; each method holds m.wgmu from *)
(* its first statement to its return.  The connection map m.iceConns is    *)
(* guarded by m.pcmu.  One peer, P2, is reached over ICE; a connection is  *)
(* named after the goroutine negotiateICEConn starts for it.               *)
(*                                                                         *)
(*   gPc[g] of a calling goroutine:                                        *)
(*     idle, lock (waits for wgmu), calls (driver calls), deferred (the    *)
(*     deferred fw.Clear of Close), pcmuNeg / pcmuRem (waits for pcmu),    *)
(*     neg (in negotiateICEConn), rem (lines 443-448), put (PutPeer or     *)
(*     DeletePeer), unlock (the deferred wgmu.Unlock)                      *)
(*   gPc[i] of a connection's goroutine:                                   *)
(*     none, waiting (on pc.Closed()), closed, delete (holds pcmu), then   *)
(*     the states of a RefreshPeers call, then none (it has returned)      *)
(***************************************************************************)
outsideLock == <<aclVars, groups, resolverVars, membershipVars, snapshotVars,
                 observerVars, managerVars, bootstrapVars, equalityVars,
                 endpointVars, closeVars,
    hookVars,
    netVars,
    globVars,
    connectVars,
    relayVars>>

Callers == {"observer", "hook", "api"}

ConnGoroutines == {"ice1", "ice2"}

Goroutines == Callers \cup ConnGoroutines

\* the observer loop and the store-update hook refresh the peers; the other
\* methods are called from the node's services
OpsOf(g) ==
    IF g = "api" THEN {"AddPeer", "StartMasquerade", "Close"} ELSE {"RefreshPeers"}

\* the positions between wgmu.Lock() and the deferred wgmu.Unlock()
InReconcile(g) ==
    gPc[g] \in {"calls", "deferred", "pcmuNeg", "pcmuRem", "neg", "rem", "put", "unlock"}

\* a goroutine enters a method of the manager
Call(g, op) ==
    /\ g \in Callers /\ gPc[g] = "idle" /\ op \in OpsOf(g)
    /\ gPc' = [gPc EXCEPT ![g] = "lock"]
    /\ gOp' = [gOp EXCEPT ![g] = op]
    /\ UNCHANGED <<wgmu, pcmu, connMap, outsideLock>>

\* a Lock that does not wait
LockUnguarded(g) ==
    /\ gPc[g] = "lock"
    /\ wgmu' = g
    /\ gPc' = [gPc EXCEPT ![g] = "calls"]
    /\ UNCHANGED <<pcmu, gOp, connMap, outsideLock>>

\* m.wgmu.Lock(), the first statement of the four methods
Lock(g) ==
    /\ gPc[g] = "lock"
    /\ wgmu = ""
    /\ wgmu' = g
    /\ gPc' = [gPc EXCEPT ![g] = "calls"]
    /\ UNCHANGED <<pcmu, gOp, connMap, outsideLock>>

\* the body of the method up to its next lock operation.  AddPeer and
\* RefreshPeers reach negotiateICEConn when the ICE peer is to be added, and
\* RefreshPeers reaches lines 443-448 when it is to be removed.
DriverCalls(g, branch) ==
    /\ gPc[g] = "calls"
    /\ gPc' = [gPc EXCEPT ![g] =
                  IF gOp[g] = "Close" THEN "deferred"
                  ELSE IF gOp[g] = "StartMasquerade" THEN "unlock"
                  ELSE IF branch = "negotiate" THEN "pcmuNeg"
                  ELSE IF branch = "remove" /\ gOp[g] = "RefreshPeers" THEN "pcmuRem"
                  ELSE "unlock"]
    /\ UNCHANGED <<wgmu, pcmu, gOp, connMap, outsideLock>>

\* Close: the deferred fw.Clear runs before the deferred wgmu.Unlock
DeferredClear(g) ==
    /\ gPc[g] = "deferred"
    /\ gPc' = [gPc EXCEPT ![g] = "unlock"]
    /\ UNCHANGED <<wgmu, pcmu, gOp, connMap, outsideLock>>

\* m.pcmu.Lock() in negotiateICEConn (line 631) and in RefreshPeers (line 443)
LockPcmu(g) ==
    /\ gPc[g] \in {"pcmuNeg", "pcmuRem"}
    /\ pcmu = ""
    /\ pcmu' = g
    /\ gPc' = [gPc EXCEPT ![g] = IF gPc[g] = "pcmuNeg" THEN "neg" ELSE "rem"]
    /\ UNCHANGED <<wgmu, gOp, connMap, outsideLock>>

FreeConnGoroutines == {i \in ConnGoroutines : gPc[i] = "none"}

\* negotiateICEConn (lines 630-673): an existing connection is used again;
\* else, when the negotiation succeeds, the goroutine of the new connection
\* is started and the connection is stored
Negotiate(g, ok) ==
    /\ gPc[g] = "neg"
    /\ (connMap = "" /\ ok) => FreeConnGoroutines # {}
    /\ IF connMap = "" /\ ok
       THEN \E i \in FreeConnGoroutines :
               /\ connMap' = i
               /\ gPc' = [gPc EXCEPT ![g] = "put", ![i] = "waiting"]
       ELSE /\ gPc' = [gPc EXCEPT ![g] = "put"]
            /\ UNCHANGED connMap
    /\ pcmu' = ""
    /\ UNCHANGED <<wgmu, gOp, outsideLock>>

\* RefreshPeers, lines 443-448: the connection of a removed peer is closed and
\* its entry deleted
RemoveConn(g) ==
    /\ gPc[g] = "rem"
    /\ gPc' = [h \in Goroutines |->
                  IF h = g THEN "put"
                  ELSE IF h = connMap /\ gPc[h] = "waiting" THEN "closed"
                  ELSE gPc[h]]
    /\ connMap' = ""
    /\ pcmu' = ""
    /\ UNCHANGED <<wgmu, gOp, outsideLock>>

\* wg.PutPeer after the endpoint is known, wg.DeletePeer after the removal
PutOrDeletePeer(g) ==
    /\ gPc[g] = "put"
    /\ gPc' = [gPc EXCEPT ![g] = "unlock"]
    /\ UNCHANGED <<wgmu, pcmu, gOp, connMap, outsideLock>>

\* the deferred m.wgmu.Unlock()
Unlock(g) ==
    /\ gPc[g] = "unlock"
    /\ wgmu' = ""
    /\ gPc' = [gPc EXCEPT ![g] = IF g \in ConnGoroutines THEN "none" ELSE "idle"]
    /\ gOp' = [gOp EXCEPT ![g] = ""]
    /\ UNCHANGED <<pcmu, connMap, outsideLock>>

\* the connection is closed by the network or by the remote end
PcClosed(i) ==
    /\ i \in ConnGoroutines /\ gPc[i] = "waiting"
    /\ gPc' = [gPc EXCEPT ![i] = "closed"]
    /\ UNCHANGED <<wgmu, pcmu, gOp, connMap, outsideLock>>

\* the goroutine of a connection, line 663: m.pcmu.Lock()
ConnLockPcmu(i) ==
    /\ i \in ConnGoroutines /\ gPc[i] = "closed"
    /\ pcmu = ""
    /\ pcmu' = i
    /\ gPc' = [gPc EXCEPT ![i] = "delete"]
    /\ UNCHANGED <<wgmu, gOp, connMap, outsideLock>>

\* a goroutine that calls RefreshPeers before it releases pcmu
ConnDeleteHoldingPcmu(i) ==
    /\ i \in ConnGoroutines /\ gPc[i] = "delete"
    /\ connMap' = ""
    /\ gPc' = [gPc EXCEPT ![i] = "lock"]
    /\ gOp' = [gOp EXCEPT ![i] = "RefreshPeers"]
    /\ UNCHANGED <<wgmu, pcmu, outsideLock>>

\* a goroutine that leaves the map as it is
ConnDeleteKeepingEntry(i) ==
    /\ i \in ConnGoroutines /\ gPc[i] = "delete"
    /\ pcmu' = ""
    /\ gPc' = [gPc EXCEPT ![i] = "lock"]
    /\ gOp' = [gOp EXCEPT ![i] = "RefreshPeers"]
    /\ UNCHANGED <<wgmu, connMap, outsideLock>>

\* the goroutine of a connection, lines 664-665 and then the deferred function
\* of lines 656-662: the entry of the peer is deleted, pcmu is released and
\* RefreshPeers is called
ConnDelete(i) ==
    /\ i \in ConnGoroutines /\ gPc[i] = "delete"
    /\ connMap' = ""
    /\ pcmu' = ""
    /\ gPc' = [gPc EXCEPT ![i] = "lock"]
    /\ gOp' = [gOp EXCEPT ![i] = "RefreshPeers"]
    /\ UNCHANGED <<wgmu, outsideLock>>

InitLock ==
    /\ wgmu = ""
    /\ pcmu = ""
    /\ gPc = [g \in Goroutines |-> IF g \in Callers THEN "idle" ELSE "none"]
    /\ gOp = [g \in Goroutines |-> ""]
    /\ connMap = ""
    /\ groups = <<>>
    /\ IdleACL
    /\ IdleMesh
    /\ IdleMembership
    /\ IdleSnapshot
    /\ IdleObserver
    /\ IdleManager
    /\ IdleBootstrap
    /\ IdleEquality
    /\ IdleEndpoint
    /\ IdleClose
    /\ IdleHook
    /\ IdleNet
    /\ IdleGlob
    /\ IdleConnect
    /\ IdleRelay

\* the steps of goroutine g that wait for nothing
Proceed(g) ==
    \/ \E branch \in {"plain", "negotiate", "remove"} : DriverCalls(g, branch)
    \/ DeferredClear(g)
    \/ \E ok \in BOOLEAN : Negotiate(g, ok)
    \/ RemoveConn(g)
    \/ PutOrDeletePeer(g)
    \/ Unlock(g)
    \/ ConnDelete(g)

\* the steps of goroutine g that wait for a mutex
Acquire(g) == Lock(g) \/ LockPcmu(g) \/ ConnLockPcmu(g)

NextLock ==
    \/ \E g \in Callers : \E op \in OpsOf(g) : Call(g, op)
    \/ \E i \in ConnGoroutines : PcClosed(i)
    \/ \E g \in Goroutines : Proceed(g)
    \/ \E g \in Goroutines : Acquire(g)

SpecLock == InitLock /\ [][NextLock]_vars

(***************************************************************************)
(* C29: at most one goroutine is between the Lock and the Unlock of wgmu   *)
(* in RefreshPeers, AddPeer, StartMasquerade or Close, whether the call    *)
(* comes from the observer loop, from a store-update hook, from a service  *)
(* or from the goroutine of a closed ICE connection.                       *)
(***************************************************************************)
C29_ReconcilesMutuallyExclusive ==
    /\ Cardinality({g \in Goroutines : InReconcile(g)}) <= 1
    /\ \A g \in Goroutines : InReconcile(g) => wgmu = g

\* the refresh of a closed connection runs while the observer loop and the
\* store-update hook wait to refresh
C29_Witness ==
    /\ \E i \in ConnGoroutines : gPc[i] = "calls"
    /\ gPc["observer"] = "lock"
    /\ gPc["hook"] = "lock"
    /\ gPc["api"] = "lock"

(***************************************************************************)
(* A started goroutine runs until it returns, and a goroutine waiting for  *)
(* a sync.Mutex gets it: a waiter that has not got the mutex for 1ms puts  *)
(* the mutex in starvation mode, where Unlock hands it to the first waiter.*)
(***************************************************************************)
SpecLockFair ==
    /\ SpecLock
    /\ \A g \in Goroutines : WF_vars(Proceed(g)) /\ SF_vars(Acquire(g))

\* goroutine i is in the RefreshPeers call it makes after its connection closed
InCloseRefresh(i) == gPc[i] = "lock" \/ InReconcile(i)

(***************************************************************************)
(* C28: when an ICE proxy connection closes, its goroutine deletes the     *)
(* entry from the connection map while it holds pcmu, the entry is out of  *)
(* the map when the refresh caused by the close starts, and every close is *)
(* eventually followed by that refresh.                                    *)
(***************************************************************************)
C28_EntryRemovedThenRefresh ==
    /\ [](\A i \in ConnGoroutines :
             /\ gPc[i] = "delete" => pcmu = i
             /\ InCloseRefresh(i) => connMap # i)
    /\ \A i \in ConnGoroutines : (gPc[i] = "closed") ~> (gPc[i] = "calls")

\* the refresh caused by the close of a connection is running and the map
\* holds no entry for the peer
C28_Witness ==
    \E i \in ConnGoroutines : gPc[i] = "calls" /\ connMap = ""

(***************************************************************************)
(* The store-update hook (store.onDBUpdate) and the goroutines it starts.  *)
(* Changes of node, edge and route keys are numbered in commit order.      *)
(***************************************************************************)
outsideHook == <<aclVars, groups, resolverVars, membershipVars, snapshotVars,
                 observerVars, managerVars, bootstrapVars, equalityVars,
                 endpointVars, closeVars, lockVars,
    netVars,
    globVars,
    connectVars,
    relayVars>>

\* how many changes the model commits
MaxChanges == 3

\* the keys of the storage by the prefix they carry: node records, edges,
\* routes, network ACLs, groups, and every other key
KeyKinds == {"node", "edge", "route", "acl", "group", "other"}

isNodeChangeKey(key) == key \in {"node", "edge"}

isRouteChangeKey(key) == key = "route"

\* store.onDBUpdate with s.testStore unset, called once the change is committed
onDBUpdate(key) ==
    /\ (isNodeChangeKey(key) \/ isRouteChangeKey(key)) => committed < MaxChanges
    /\ IF isNodeChangeKey(key)
       THEN /\ committed' = committed + 1
            /\ waiters' = waiters \cup {committed + 1}
            /\ UNCHANGED routeWaiters
       ELSE IF isRouteChangeKey(key)
       THEN /\ committed' = committed + 1
            /\ waiters' = waiters \cup {committed + 1}
            /\ routeWaiters' = routeWaiters \cup {committed + 1}
       ELSE UNCHANGED <<committed, waiters, routeWaiters>>
    /\ lastUpdate' = [key |-> key, queued |-> waiters' # waiters]
    /\ UNCHANGED <<caughtUp, tasks, taskLimit, reconciled, outsideHook>>

\* raft applies an entry the store has not applied yet, or the store catches up
RaftApplied(now) ==
    /\ caughtUp # now
    /\ caughtUp' = now
    /\ UNCHANGED <<committed, waiters, routeWaiters, tasks, taskLimit, reconciled,
                   lastUpdate, outsideHook>>

\* nwTaskGroup.TryGo: the function is started unless the group is at its
\* limit; the result of TryGo is not looked at
TryGo(task) ==
    IF taskLimit = 0 \/ Cardinality(tasks) < taskLimit
    THEN tasks \cup {task}
    ELSE tasks

\* queuePeersUpdate, lines 85-91: the 10 seconds are over and the store has
\* not caught up; the goroutine logs a warning and returns
PeersUpdateTimeout(change) ==
    /\ change \in waiters
    /\ ~caughtUp
    /\ waiters' = waiters \ {change}
    /\ UNCHANGED <<committed, caughtUp, routeWaiters, tasks, taskLimit, reconciled,
                   lastUpdate, outsideHook>>

\* queuePeersUpdate, lines 85 and 92-98: the store has caught up
PeersUpdateTryGo(change) ==
    /\ change \in waiters
    /\ caughtUp
    /\ waiters' = waiters \ {change}
    /\ tasks' = TryGo([kind |-> "peers", change |-> change, read |-> 0])
    /\ UNCHANGED <<committed, caughtUp, routeWaiters, taskLimit, reconciled,
                   lastUpdate, outsideHook>>

\* queueRouteUpdate, lines 57-63
RouteUpdateTimeout(change) ==
    /\ change \in routeWaiters
    /\ ~caughtUp
    /\ routeWaiters' = routeWaiters \ {change}
    /\ UNCHANGED <<committed, caughtUp, waiters, tasks, taskLimit, reconciled,
                   lastUpdate, outsideHook>>

\* queueRouteUpdate, lines 57 and 64-79
RouteUpdateTryGo(change) ==
    /\ change \in routeWaiters
    /\ caughtUp
    /\ routeWaiters' = routeWaiters \ {change}
    /\ tasks' = TryGo([kind |-> "routes", change |-> change, read |-> 0])
    /\ UNCHANGED <<committed, caughtUp, waiters, taskLimit, reconciled, lastUpdate,
                   outsideHook>>

\* the function of lines 92-98 calls RefreshPeers, which reads the peers of
\* this node from the storage (manager.go line 401)
TaskReads(task) ==
    /\ task \in tasks
    /\ task.kind = "peers" /\ task.read = 0
    /\ tasks' = (tasks \ {task}) \cup {[task EXCEPT !.read = committed]}
    /\ UNCHANGED <<committed, caughtUp, waiters, routeWaiters, taskLimit, reconciled,
                   lastUpdate, outsideHook>>

\* the function returns: RefreshPeers has applied what it read, or the routes
\* were read and StartMasquerade called
TaskReturns(task) ==
    /\ task \in tasks
    /\ task.kind = "peers" => task.read # 0
    /\ tasks' = tasks \ {task}
    /\ reconciled' = IF task.kind = "peers" /\ task.read > reconciled
                     THEN task.read ELSE reconciled
    /\ UNCHANGED <<committed, caughtUp, waiters, routeWaiters, taskLimit, lastUpdate,
                   outsideHook>>

InitHook ==
    /\ committed = 0
    /\ caughtUp \in BOOLEAN
    /\ waiters = {}
    /\ routeWaiters = {}
    /\ tasks = {}
    /\ taskLimit \in {0, 1}
    /\ reconciled = 0
    /\ lastUpdate = NoUpdate
    /\ groups = <<>>
    /\ IdleACL
    /\ IdleMesh
    /\ IdleMembership
    /\ IdleSnapshot
    /\ IdleObserver
    /\ IdleManager
    /\ IdleBootstrap
    /\ IdleEquality
    /\ IdleEndpoint
    /\ IdleClose
    /\ IdleLock
    /\ IdleNet
    /\ IdleGlob
    /\ IdleConnect
    /\ IdleRelay

NextHook ==
    \/ \E key \in KeyKinds : onDBUpdate(key)
    \/ \E now \in BOOLEAN : RaftApplied(now)
    \/ \E change \in 1..MaxChanges : PeersUpdateTimeout(change)
    \/ \E change \in 1..MaxChanges : PeersUpdateTryGo(change)
    \/ \E change \in 1..MaxChanges : RouteUpdateTimeout(change)
    \/ \E change \in 1..MaxChanges : RouteUpdateTryGo(change)
    \/ \E task \in tasks : TaskReads(task)
    \/ \E task \in tasks : TaskReturns(task)

SpecHook == InitHook /\ [][NextHook]_vars

\* no goroutine of the hook is waiting and no function of the group is running
HookQuiet == waiters = {} /\ routeWaiters = {} /\ tasks = {}

(***************************************************************************)
(* C30: every committed change of a node, edge or route key is followed by *)
(* a RefreshPeers run that reads the state at or after the change; once    *)
(* the goroutines started for the changes have ended, the latest change    *)
(* has been read by a finished RefreshPeers.                               *)
(***************************************************************************)
C30_NoChangeLeftUnreconciled ==
    HookQuiet => reconciled = committed

(***************************************************************************)
(* C31: a change of any input of the topology resolver queues a peer       *)
(* refresh; in particular the hook queues one for a created, updated or    *)
(* deleted network ACL or group.                                           *)
(***************************************************************************)
C31_PolicyChangeQueuesRefresh ==
    lastUpdate.key \in {"node", "edge", "route", "acl", "group"} => lastUpdate.queued

\* the tables hold the rows of the snapshot document (edges by their node ids)
HoldsSnapshot(database, data) ==
    /\ \A t \in Tables \ {"nodeEdges"} : database[t] = Decode(data)[t]
    /\ {<<e.src, e.dst>> : e \in database.nodeEdges}
          = {<<e.src, e.dst>> : e \in Decode(data).nodeEdges}

(***************************************************************************)
(* C32: a Restore either commits, and then every table holds the rows of   *)
(* the snapshot, or returns an error, and then the store is as it was      *)
(* before the call: no step leaves tables dropped and not filled again.    *)
(***************************************************************************)
C32_RestoreIsAtomic ==
    [][restoreErr' # "none" =>
          \/ restoreErr' = "nil" /\ HoldsSnapshot(db', snapshotData)
          \/ restoreErr' # "nil" /\ db' = db]_vars

\* a Restore of a snapshot that differs from the store has returned an error
\* and the store still holds its rows
C32_Witness ==
    /\ restoreErr \notin {"none", "nil"}
    /\ snapshotData # <<>>
    /\ ~HoldsSnapshot(db, snapshotData)
    /\ \E t \in Tables : db[t] # {}

(***************************************************************************)
(* DNS servers of the network manager (AddDNSServers, RefreshDNSServers)   *)
(* and manager.Close.  m.dnsservers is modelled by the set of its          *)
(* elements.                                                               *)
(***************************************************************************)
outsideNet == <<aclVars, groups, resolverVars, membershipVars, snapshotVars,
                observerVars, managerVars, bootstrapVars, equalityVars,
                endpointVars, closeVars, lockVars, hookVars,
    globVars,
    connectVars,
    relayVars>>

DNSAddrs == {"dns1:53", "dns2:53"}

\* manager.AddDNSServers; ok is the outcome of dns.AddServers
AddDNSServers(servers, ok) ==
    /\ nwOpts.wg /\ nwResult.op # "Close"
    /\ servers # {}
    /\ IF ok
       THEN /\ systemDNS' = systemDNS \cup servers
            /\ dnsservers' = dnsservers \cup servers
       ELSE UNCHANGED <<systemDNS, dnsservers>>
    /\ nwResult' = [op |-> "AddDNSServers", err |-> ~ok]
    /\ UNCHANGED <<nwOpts, meshDNS, nwSteps, outsideNet>>

\* manager.RefreshDNSServers; the arguments are the outcomes of ListByFeature,
\* dns.AddServers and dns.RemoveServers.  A call of the dns package that
\* returns an error has configured nothing.
RefreshDNSServers(listOK, addOK, removeOK) ==
    /\ nwOpts.wg /\ nwResult.op # "Close"
    /\ LET seen == meshDNS
           toRemove == dnsservers \ seen
           toAdd == seen \ dnsservers
           added == IF toAdd # {} /\ addOK THEN systemDNS \cup toAdd ELSE systemDNS
       IN  IF ~listOK
           THEN /\ nwResult' = [op |-> "RefreshDNSServers", err |-> TRUE]
                /\ UNCHANGED <<dnsservers, systemDNS>>
           ELSE /\ dnsservers' = seen
                /\ IF toAdd # {} /\ ~addOK
                   THEN /\ systemDNS' = systemDNS
                        /\ nwResult' = [op |-> "RefreshDNSServers", err |-> TRUE]
                   ELSE IF toRemove # {} /\ ~removeOK
                   THEN /\ systemDNS' = added
                        /\ nwResult' = [op |-> "RefreshDNSServers", err |-> TRUE]
                   ELSE /\ systemDNS' = added \ toRemove
                        /\ nwResult' = [op |-> "RefreshDNSServers", err |-> FALSE]
    /\ UNCHANGED <<nwOpts, meshDNS, nwSteps, outsideNet>>

\* a peer with the MESH_DNS feature joins or leaves
MeshDNSChange(servers) ==
    /\ nwResult.op # "Close"
    /\ meshDNS # servers
    /\ meshDNS' = servers
    /\ UNCHANGED <<nwOpts, dnsservers, systemDNS, nwSteps, nwResult, outsideNet>>

\* manager.Close (lines 352-380); the arguments are the outcomes of
\* dns.RemoveServers, wg.Close and fw.Clear.  The function that clears the
\* firewall is deferred: it runs when Close returns, also on the error return
\* of line 376.
managerClose(removeOK, wgOK, clearOK) ==
    /\ nwResult.op # "Close"
    /\ nwSteps' =
          (IF dnsservers # {} THEN <<Step("dns.RemoveServers", ~removeOK)>> ELSE <<>>)
          \o (IF nwOpts.wg THEN <<Step("wg.Close", ~wgOK)>> ELSE <<>>)
          \o (IF nwOpts.fw THEN <<Step("fw.Clear", ~clearOK)>> ELSE <<>>)
    /\ systemDNS' = IF dnsservers # {} /\ removeOK THEN systemDNS \ dnsservers
                    ELSE systemDNS
    /\ nwResult' = [op |-> "Close", err |-> nwOpts.wg /\ ~wgOK]
    /\ UNCHANGED <<nwOpts, dnsservers, meshDNS, outsideNet>>

InitNet ==
    /\ nwOpts \in [fw : BOOLEAN, wg : BOOLEAN]
    /\ dnsservers = {}
    /\ systemDNS = {}
    /\ meshDNS = {}
    /\ nwSteps = <<>>
    /\ nwResult = NoCall
    /\ groups = <<>>
    /\ IdleACL
    /\ IdleMesh
    /\ IdleMembership
    /\ IdleSnapshot
    /\ IdleObserver
    /\ IdleManager
    /\ IdleBootstrap
    /\ IdleEquality
    /\ IdleEndpoint
    /\ IdleClose
    /\ IdleLock
    /\ IdleHook
    /\ IdleGlob
    /\ IdleConnect
    /\ IdleRelay

NextNet ==
    \/ \E servers \in SUBSET DNSAddrs, ok \in BOOLEAN : AddDNSServers(servers, ok)
    \/ \E listOK, addOK, removeOK \in BOOLEAN : RefreshDNSServers(listOK, addOK, removeOK)
    \/ \E servers \in SUBSET DNSAddrs : MeshDNSChange(servers)
    \/ \E removeOK, wgOK, clearOK \in BOOLEAN : managerClose(removeOK, wgOK, clearOK)

SpecNet == InitNet /\ [][NextNet]_vars

\* the position of a call among the steps of the last manager.Close, 0 when
\* not made
NetStepOf(call) ==
    IF \E i \in DOMAIN nwSteps : nwSteps[i].call = call
    THEN CHOOSE i \in DOMAIN nwSteps : nwSteps[i].call = call
    ELSE 0

NetCalledBefore(a, b) ==
    (NetStepOf(a) # 0 /\ NetStepOf(b) # 0) => NetStepOf(a) < NetStepOf(b)

(***************************************************************************)
(* C33: manager.Close clears the firewall rules, then closes the tunnel    *)
(* device, then removes the DNS servers.                                   *)
(***************************************************************************)
C33_CloseReleasesInOrder ==
    nwResult.op = "Close" =>
        /\ NetCalledBefore("fw.Clear", "wg.Close")
        /\ NetCalledBefore("wg.Close", "dns.RemoveServers")
        /\ NetCalledBefore("fw.Clear", "dns.RemoveServers")

(***************************************************************************)
(* C38: while the manager is in use, the DNS servers it has recorded are   *)
(* the DNS servers it has configured on the system, also after a           *)
(* RefreshDNSServers that failed while adding or removing servers.         *)
(***************************************************************************)
C38_RecordedDNSIsConfiguredDNS ==
    nwResult.op # "Close" => dnsservers = systemDNS

\* the node lists of the ACLs as they are stored
StoredNodeLists == {b.sourceNodes : b \in ACLBodies} \cup {<<"*">>}

(***************************************************************************)
(* C34: evaluating an ACL does not modify it: after Matches has run, the   *)
(* source-node and destination-node lists of every ACL are the stored      *)
(* lists, `group:X` references included.                                   *)
(***************************************************************************)
C34_MatchesLeavesACLUnchanged ==
    \A i \in 1..Len(aclList) :
        /\ aclList[i].sourceNodes \in StoredNodeLists
        /\ aclList[i].destinationNodes \in StoredNodeLists

(***************************************************************************)
(* Pattern matching of one ACL entry against one string                    *)
(* (containsOrWildcardMatch with a list of one pattern).                   *)
(***************************************************************************)
outsideGlob == <<aclVars, groups, resolverVars, membershipVars, snapshotVars,
                 observerVars, managerVars, bootstrapVars, equalityVars,
                 endpointVars, closeVars, lockVars, hookVars, netVars,
    connectVars,
    relayVars>>

\* the longest pattern and string the model draws
MaxGlobLen == 3

RECURSIVE Concat(_)
\* the string made of the characters of a tuple
Concat(chars) == IF chars = <<>> THEN "" ELSE Head(chars) \o Concat(Tail(chars))

StringsOver(alphabet) ==
    {Concat(t) : t \in UNION {[1..n -> alphabet] : n \in 0..MaxGlobLen}}

CountStars(v) == Cardinality({i \in 1..Len(v) : SubSeq(v, i, i) = "*"})

\* the patterns with at most one star
GlobPatterns == {v \in StringsOver({"a", "b", "*"}) : CountStars(v) <= 1}

GlobStrings == StringsOver({"a", "b"})

\* containsOrWildcardMatch([]string{pattern}, s)
MatchOne ==
    /\ globResult = "none"
    /\ globResult' = IF containsOrWildcardMatch(<<globPattern>>, globString)
                     THEN "match" ELSE "no match"
    /\ UNCHANGED <<globPattern, globString, outsideGlob>>

InitGlob ==
    /\ globPattern \in GlobPatterns
    /\ globString \in GlobStrings
    /\ globResult = "none"
    /\ groups = <<>>
    /\ IdleACL
    /\ IdleMesh
    /\ IdleMembership
    /\ IdleSnapshot
    /\ IdleObserver
    /\ IdleManager
    /\ IdleBootstrap
    /\ IdleEquality
    /\ IdleEndpoint
    /\ IdleClose
    /\ IdleLock
    /\ IdleHook
    /\ IdleNet
    /\ IdleConnect
    /\ IdleRelay

NextGlob == MatchOne

SpecGlob == InitGlob /\ [][NextGlob]_vars

\* single-star glob matching: x is the text before the star, then any string,
\* then the text after the star
GlobMatches(v, x) ==
    IF ~ContainsStar(v) THEN v = x
    ELSE LET p == SubSeq(v, 1, FirstStar(v) - 1)
             s == SubSeq(v, FirstStar(v) + 1, Len(v))
         IN  /\ Len(x) >= Len(p) + Len(s)
             /\ SubSeq(x, 1, Len(p)) = p
             /\ SubSeq(x, Len(x) - Len(s) + 1, Len(x)) = s

(***************************************************************************)
(* C35: matching a string against a pattern with at most one star is glob  *)
(* matching: `*` matches every string, p*s matches x iff x is p, then some *)
(* possibly empty string, then s, and a pattern without a star matches     *)
(* only itself.                                                            *)
(***************************************************************************)
C35_SingleStarGlob ==
    globResult # "none" =>
        ((globResult = "match") <=> GlobMatches(globPattern, globString))

(***************************************************************************)
(* C36: the observer deletes the node record of a peer only once the peer  *)
(* is out of the raft configuration: when the removal fails the record is  *)
(* kept, so every server of the configuration has a node record.           *)
(***************************************************************************)
C36_MembersKeepNodeRecord ==
    /\ \A id \in DOMAIN raftServers : id \in DOMAIN meshNodes
    /\ lastObs.deletedNode => lastObs.droppedServer

\* goroutine g has called Lock on the mutex and has not got it yet
WaitsForWgmu(g) == gPc[g] = "lock"

WaitsForPcmu(g) == gPc[g] \in {"pcmuNeg", "pcmuRem", "closed"}

(***************************************************************************)
(* C37: the manager cannot deadlock on its own locks: a goroutine that     *)
(* waits for pcmu or holds it inside a manager method holds wgmu already,  *)
(* no goroutine waits for wgmu while it holds pcmu, and whenever a         *)
(* goroutine is inside a call or waits for a mutex some goroutine can      *)
(* take a step.                                                            *)
(***************************************************************************)
C37_NoDeadlockOnOwnLocks ==
    /\ \A g \in Goroutines : WaitsForWgmu(g) => pcmu # g
    /\ \A g \in Callers : (WaitsForPcmu(g) \/ pcmu = g) => wgmu = g
    /\ (\E g \in Goroutines : gPc[g] \notin {"idle", "none", "waiting"})
          => ENABLED (\E g \in Goroutines : Proceed(g) \/ Acquire(g))

\* one goroutine holds both mutexes in negotiateICEConn while the goroutine
\* of a closed connection waits for pcmu and another caller waits for wgmu
C37_Witness ==
    /\ \E g \in Goroutines : wgmu = g /\ pcmu = g /\ gPc[g] = "neg"
    /\ \E i \in ConnGoroutines : gPc[i] = "closed"
    /\ \E h \in Callers : WaitsForWgmu(h)


(***************************************************************************)
(* Opening the mesh store (meshStore.Connect).                             *)
(***************************************************************************)
outsideConnect == <<aclVars, groups, resolverVars, membershipVars, snapshotVars,
                    observerVars, managerVars, bootstrapVars, equalityVars,
                    endpointVars, lockVars, hookVars, netVars, globVars,
    relayVars>>

\* the options Connect branches on: Bootstrap set, else JoinRoundTripper set,
\* else neither; and Discovery set with Announce
ConnectOptions == [mode : {"bootstrap", "join", "recover"}, announce : BOOLEAN]

\* the calls of Connect that can return an error
ConnectCalls == {"plugins.NewManager", "loadWireGuardKey", "bootstrap", "join",
                 "recoverWireguard", "Subscribe", "AnnounceDHT"}

\* the calls Connect makes, in order, under the given options
CallsMade(opts) ==
    <<"plugins.NewManager", "loadWireGuardKey">>
    \o (IF opts.mode = "bootstrap" THEN <<"bootstrap">>
        ELSE IF opts.mode = "join" THEN <<"join">>
        ELSE <<"recoverWireguard">>)
    \o <<"Subscribe">>
    \o (IF opts.announce THEN <<"AnnounceDHT">> ELSE <<>>)

\* the error Connect wraps the failure of a call in
WrappedError(call) ==
    CASE call = "plugins.NewManager" -> "failed to load plugins"
      [] call = "loadWireGuardKey"   -> "load wireguard key"
      [] call = "bootstrap"          -> "bootstrap"
      [] call = "join"               -> "join"
      [] call = "recoverWireguard"   -> "recover wireguard"
      [] call = "Subscribe"          -> "subscribe"
      [] call = "AnnounceDHT"        -> "announce dht"

\* the failures Connect returns through handleErr
ThroughHandleErr == {"bootstrap", "join", "Subscribe", "AnnounceDHT"}

\* handleErr: cancels the subscription, closes the plugins, stops raft and
\* returns the cause; pluginErr and raftErr are logged
handleErr(pluginErr, raftErr) ==
    <<Step("kvSubCancel", FALSE), Step("plugins.Close", pluginErr),
      Step("raft.Stop", raftErr)>>

\* meshStore.Connect; failing is the call that returns an error ("" when none
\* does), pluginsLeft whether NewManager leaves a manager behind when it fails.
\* The record of the last Close is cleared: Connect is now the last call.
Connect(opts, failing, pluginsLeft, pluginErr, raftErr) ==
    /\ connectOpts' = opts
    /\ IF storeOpen
       THEN /\ connectResult' = "ErrOpen"
            /\ connectSteps' = <<>>
            /\ UNCHANGED <<storeOpen, closeOpts>>
       ELSE IF failing = "plugins.NewManager"
       THEN /\ connectResult' = WrappedError(failing)
            /\ connectSteps' = <<>>
            /\ closeOpts' = [closeOpts EXCEPT !.raft = TRUE,
                                              !.plugins = pluginsLeft]
            /\ UNCHANGED storeOpen
       ELSE /\ closeOpts' = [closeOpts EXCEPT !.raft = TRUE, !.plugins = TRUE,
                                              !.nw = TRUE]
            /\ storeOpen' = TRUE
            /\ IF \E i \in DOMAIN CallsMade(opts) : CallsMade(opts)[i] = failing
               THEN /\ connectResult' = WrappedError(failing)
                    /\ connectSteps' = IF failing \in ThroughHandleErr
                                       THEN handleErr(pluginErr, raftErr)
                                       ELSE <<>>
               ELSE /\ connectResult' = "nil"
                    /\ connectSteps' = <<>>
    /\ closeSteps' = <<>>
    /\ closeResult' = "none"
    /\ UNCHANGED outsideConnect

InitConnect ==
    /\ storeOpen = FALSE
    /\ closeOpts \in {[NoComponents EXCEPT !.leaveOnShutdown = l] : l \in BOOLEAN}
    /\ closeSteps = <<>>
    /\ closeResult = "none"
    /\ IdleConnect
    /\ groups = <<>>
    /\ IdleACL
    /\ IdleMesh
    /\ IdleMembership
    /\ IdleSnapshot
    /\ IdleObserver
    /\ IdleManager
    /\ IdleBootstrap
    /\ IdleEquality
    /\ IdleEndpoint
    /\ IdleLock
    /\ IdleHook
    /\ IdleNet
    /\ IdleGlob
    /\ IdleRelay

NextConnect ==
    \/ \E opts \in ConnectOptions, failing \in ConnectCalls \cup {""},
          pluginsLeft, pluginErr, raftErr \in BOOLEAN :
          Connect(opts, failing, pluginsLeft, pluginErr, raftErr)
    \/ \E nwErr, pluginsErr, raftErr, leaveErr \in BOOLEAN :
          meshStoreClose(nwErr, pluginsErr, raftErr, leaveErr)

SpecConnect == InitConnect /\ [][NextConnect]_vars

\* the last Connect returned an error of its own and no Close followed it
ConnectFailed ==
    /\ connectResult \notin {"none", "nil", "ErrOpen"}
    /\ closeResult = "none"

(***************************************************************************)
(* C39: when Connect returns an error (key loading, bootstrap, join,       *)
(* recovery, subscription or announce failure) the store is not left       *)
(* marked open, so the next Connect is not rejected with ErrOpen.          *)
(***************************************************************************)
C39_FailedConnectLeavesStoreClosed == ConnectFailed => ~storeOpen

(***************************************************************************)
(* UDP relays made on one libp2p host with NewUDPRelayWithHost.            *)
(***************************************************************************)
outsideRelay == <<aclVars, groups, resolverVars, membershipVars, snapshotVars,
                  observerVars, managerVars, bootstrapVars, equalityVars,
                  endpointVars, closeVars, lockVars, hookVars, netVars,
                  globVars, connectVars>>

\* the relays the model makes on the host
RelayNames == {"r1", "r2"}

\* WireGuard public keys
RelayKeys == {"k1", "k2"}

\* UDPRelayProtocolFor: the protocol id of a public key
UDPRelayProtocolFor(key) == "/webmesh/udp-relay/" \o key

RelayProtocols == {UDPRelayProtocolFor(k) : k \in RelayKeys}

NoRelay == [localPubKey |-> "", remotePubKey |-> "", state |-> "none",
            rxrelay |-> "none"]

\* newUDPRelayWithHostAndCloseFunc called by NewUDPRelayWithHost: makes the two
\* local relays, registers the stream handler and starts the goroutine.
\* rxOK and rxtxOK are the outcomes of the two relay.NewLocalUDP calls.
NewUDPRelayWithHost(r, localPubKey, remotePubKey, rxOK, rxtxOK) ==
    /\ udpRelays[r].state = "none"
    /\ IF rxOK /\ rxtxOK
       THEN /\ streamHandlers' =
                   [p \in RelayProtocols |->
                       IF p = UDPRelayProtocolFor(localPubKey)
                       THEN r ELSE streamHandlers[p]]
            /\ udpRelays' = [udpRelays EXCEPT ![r] =
                   [localPubKey |-> localPubKey, remotePubKey |-> remotePubKey,
                    state |-> "running", rxrelay |-> "open"]]
       ELSE /\ udpRelays' = [udpRelays EXCEPT ![r] =
                   [NoRelay EXCEPT !.state = "error"]]
            /\ UNCHANGED streamHandlers
    /\ UNCHANGED <<lastStream, outsideRelay>>

\* UDPRelay.Close: cancels the context of the goroutine; the close function of
\* a relay made with NewUDPRelayWithHost does nothing
UDPRelayClose(r) ==
    /\ udpRelays[r].state \in {"running", "cancelled", "terminated"}
    /\ udpRelays' = [udpRelays EXCEPT ![r].state =
                        IF @ = "running" THEN "cancelled" ELSE @]
    /\ UNCHANGED <<streamHandlers, lastStream, outsideRelay>>

\* the protocol id the goroutine's deferred RemoveStreamHandler names
RemovedProtocol(relay) == UDPRelayProtocolFor(relay.remotePubKey)

\* the goroutine of the relay returns (context cancelled, FindPeers failed or
\* the relayed stream ended); its deferred calls run
RelayLoopEnds(r) ==
    /\ udpRelays[r].state \in {"running", "cancelled"}
    /\ streamHandlers' =
           [p \in RelayProtocols |->
               IF p = RemovedProtocol(udpRelays[r]) THEN "" ELSE streamHandlers[p]]
    /\ udpRelays' = [udpRelays EXCEPT ![r].state = "terminated"]
    /\ UNCHANGED <<lastStream, outsideRelay>>

\* a remote peer opens a stream for a protocol id; the host hands it to the
\* handler registered for the id.  keyOK: the peer's key is the expected one.
IncomingStream(protocol, keyOK) ==
    /\ \E h \in {streamHandlers[protocol]} :
          IF h = ""
          THEN /\ lastStream' = [protocol |-> protocol, handler |-> "",
                                 state |-> "", outcome |-> "refused"]
               /\ UNCHANGED udpRelays
          ELSE /\ lastStream' =
                      [protocol |-> protocol, handler |-> h,
                       state |-> udpRelays[h].state,
                       outcome |-> IF ~keyOK THEN "rejected"
                                   ELSE IF udpRelays[h].rxrelay = "open"
                                   THEN "relayed" ELSE "relay error"]
               /\ udpRelays' = IF keyOK
                               THEN [udpRelays EXCEPT ![h].rxrelay = "closed"]
                               ELSE udpRelays
    /\ UNCHANGED <<streamHandlers, outsideRelay>>

InitRelay ==
    /\ streamHandlers = [p \in RelayProtocols |-> ""]
    /\ udpRelays = [r \in RelayNames |-> NoRelay]
    /\ lastStream = NoStream
    /\ groups = <<>>
    /\ IdleACL
    /\ IdleMesh
    /\ IdleMembership
    /\ IdleSnapshot
    /\ IdleObserver
    /\ IdleManager
    /\ IdleBootstrap
    /\ IdleEquality
    /\ IdleEndpoint
    /\ IdleClose
    /\ IdleLock
    /\ IdleHook
    /\ IdleNet
    /\ IdleGlob
    /\ IdleConnect

NextRelay ==
    \/ \E r \in RelayNames, localPubKey, remotePubKey \in RelayKeys,
          rxOK, rxtxOK \in BOOLEAN :
          NewUDPRelayWithHost(r, localPubKey, remotePubKey, rxOK, rxtxOK)
    \/ \E r \in RelayNames : UDPRelayClose(r)
    \/ \E r \in RelayNames : RelayLoopEnds(r)
    \/ \E protocol \in RelayProtocols, keyOK \in BOOLEAN :
          IncomingStream(protocol, keyOK)

SpecRelay == InitRelay /\ [][NextRelay]_vars

(***************************************************************************)
(* C40: once a UDP relay has terminated, the stream handler it registered  *)
(* on the host for its own protocol id is no longer registered, and the    *)
(* host hands no stream to a terminated relay.                             *)
(***************************************************************************)
C40_TerminatedRelayHasNoHandler ==
    /\ \A r \in DOMAIN udpRelays :
          udpRelays[r].state = "terminated"
              => streamHandlers[UDPRelayProtocolFor(udpRelays[r].localPubKey)] # r
    /\ lastStream.handler # "" => lastStream.state # "terminated"
=============================================================================
